---- MODULE Spec2Model ----
(***************************************************************************)
(* Model of the adaptive interview orchestration engine.                   *)
(*                                                                         *)
(* Part 1: the turn state machine, AgenticInterviewAgent.process_turn of   *)
(* backend/services/interview_agent.py, for ONE interview session.         *)
(*                                                                         *)
(* Conventions                                                             *)
(*   - Python None is the empty tuple <<>>, a present optional value x is  *)
(*     <<x>> (None / Some).                                                *)
(*   - a Python dict is a function with a string domain; dict.get(k, d)    *)
(*     is Get(d, k, default).                                              *)
(*   - satisfaction scores are floats in [0,1] in the code; the model      *)
(*     counts them in tenths, so 0.5 is 5.                                 *)
(*   - datetime.utcnow() is the value of the logical clock `clock`.        *)
(***************************************************************************)
EXTENDS Integers, Sequences, FiniteSets, TLC

VARIABLES
    conversation_state_json, \* InterviewSession.conversation_state_json (the persisted blob)
    ended_at,                \* InterviewSession.ended_at: None or Some(time)
    question_start_time,     \* InterviewSession.question_start_time: None or Some(time)
    language,                \* InterviewSession.language: None or Some(name)
    plan_items,              \* the session's plan: a sequence of plan-item dicts
    question_bank,           \* ids of the rows of the QuestionBank table
    interview_turns,         \* rows of the InterviewTurn table of this session, in insertion order
    clock,                   \* logical time; one tick per process_turn invocation
    response,                \* what the last process_turn invocation returned (None: nothing yet / it raised)
    raised,                  \* TRUE iff the last process_turn invocation ended with an unhandled exception
    loaded,                  \* history: the state dict the last invocation got from _load_state (None if it got none)
    run_result,              \* history: what reasoning_loop.run did in the last invocation (None if not reached)
    refine_calls,            \* history: per question slot, how often _refine_and_translate was invoked
    inflight,                \* overlapping invocations: per invocation, its position and its local variables
    question_rows,           \* question selector: ids of the rows of its QuestionBank table
    history,                 \* question selector: the user's earlier sessions for the job, oldest first
    selection,               \* question selector: the select_questions call, its arguments and locals
    building,                \* plan builder: the build_interview_plan call, its arguments and locals
    evaluation,              \* a call of a function without side effects: its arguments and result
    store,                   \* readiness: the analyses and sessions of the user
    snapshots                \* readiness: the rows of the UserReadinessSnapshot table, in insertion order

\* the variables of the turn state machine
turn_vars == <<conversation_state_json, ended_at, question_start_time, language,
               plan_items, question_bank, interview_turns, clock, response, raised,
               loaded, run_result, refine_calls, inflight>>

\* the variables of the components other than the question selector
beyond_select_vars == <<building, evaluation, store, snapshots>>

\* the variables of the components other than the turn state machine
offline_vars == <<question_rows, history, selection, beyond_select_vars>>

vars == <<turn_vars, offline_vars>>

----------------------------------------------------------------------------
(* Bounds of the model *)

\* process_turn invocations per behaviour
MaxCalls == 3

\* longest plan
MaxPlan == 2

----------------------------------------------------------------------------
(* Python helpers *)

None == <<>>

Some(x) == <<x>>

\* dict.get(key, default)
Get(d, key, default) == IF key \in DOMAIN d THEN d[key] ELSE default

\* the empty dict {}
EmptyDict == <<>>

\* str.lower() on the language names the model uses
Lower(s) == IF s = "Hebrew" THEN "hebrew" ELSE IF s = "English" THEN "english" ELSE s

----------------------------------------------------------------------------
(* Inputs: the plan, the question bank, the external capabilities *)

\* id of the question planned for (0-based) slot i: "open:<n>" / "code:<n>"
PlanQuestionId(i) == (IF i % 2 = 0 THEN "open:" ELSE "code:") \o ToString(i + 1)

\* plan item of slot i, as stored in plan_json
PlanItem(i) ==
    [selected_question_id |-> PlanQuestionId(i),
     type |-> IF i % 2 = 0 THEN "open" ELSE "code"]

\* the plans of the model: the first n slots, n = 0..MaxPlan
Plans == {[k \in 1..n |-> PlanItem(k - 1)] : n \in 0..MaxPlan}

\* QuestionBank.question_text of question qid
QuestionText(qid) == "Q " \o qid

\* InterviewSession.language values
Languages == {None, Some("Hebrew")}

\* what one call_llm(...) does: raises, or returns a text (possibly blank)
LLMOutcomes ==
    {[raised |-> TRUE, text |-> ""],
     [raised |-> FALSE, text |-> ""],
     [raised |-> FALSE, text |-> "scenario"]}

\* AgentDecision.action values the reasoning loop may produce
Actions == {"followup", "hint", "end", "advance", "clarify"}

\* AgentDecision.satisfaction_score values (tenths)
Scores == {8}

\* AgentDecision.followup_question values ("" : none)
FollowupTexts == {"", "why?", "how?"}

\* AgentDecision.message values ("" : none)
Messages == {"", "I see."}

\* AgentDecision objects the reasoning loop may return (a follow-up text on a
\* decision other than followup is never read by the code and is left out)
Decisions ==
    {d \in [action : Actions, message : Messages,
            followup_question : FollowupTexts, satisfaction_score : Scores] :
        d.followup_question # "" => d.action = "followup"}

\* outcomes of reasoning_loop.run(context): an exception or a decision
RunResults ==
    {[raised |-> TRUE]} \cup {[raised |-> FALSE, decision |-> d] : d \in Decisions}

----------------------------------------------------------------------------
(* Persisted conversation state *)

\* The blob is None (column never written), a JSON object, or text that is
\* not JSON.  json.dumps(state): the blob holding dict `state`.
JsonDumps(state) == [parses |-> TRUE, obj |-> state]

\* a blob json.loads cannot parse
Unparsable == [parses |-> FALSE, obj |-> EmptyDict]

\* json.loads(conversation_state_json or "{}") raises JSONDecodeError
LoadRaises(blob) == blob # None /\ ~blob[1].parses

\* json.loads(conversation_state_json or "{}") when it does not raise
JsonLoads(blob) == IF blob = None THEN EmptyDict ELSE blob[1].obj

\* _load_state: the five known keys, defaulted; every other key is dropped
_load_state(blob) ==
    LET state == JsonLoads(blob)
    IN  [current_question_id |-> Get(state, "current_question_id", None),
         followup_count      |-> Get(state, "followup_count", 0),
         question_index      |-> Get(state, "question_index", 0),
         initial_answer_score |-> Get(state, "initial_answer_score", 0),
         previous_followups  |-> Get(state, "previous_followups", <<>>)]

\* f"refined_q_{question_index}"
RefinedKey(question_index) == "refined_q_" \o ToString(question_index)

\* state[key] = value
DictSet(state, key, value) == (key :> value) @@ state

----------------------------------------------------------------------------
(* Question refinement *)

\* _refine_and_translate(text, type, language): the texts it may return.
\* English path: the stripped LLM text when the call returns a non-blank
\* text, else the original text.  Hebrew path: one extra call first; its
\* exception returns the original text, its blank result falls through to
\* the English path.
_refine_and_translate(text, type, lang) ==
    LET english == {IF r.raised \/ r.text = "" THEN text ELSE r.text : r \in LLMOutcomes}
    IN  IF lang # "" /\ Lower(lang) = "hebrew"
        THEN UNION {IF r.raised THEN {text}
                    ELSE IF r.text # "" THEN {r.text}
                    ELSE english : r \in LLMOutcomes}
        ELSE english

----------------------------------------------------------------------------
(* Turn records *)

\* _get_last_main_turn with a bug: ascending order, so .first() is the
\* oldest non-follow-up turn
_get_first_main_turn(turns) ==
    LET mains == {k \in 1..Len(turns) : ~turns[k].is_followup}
    IN  IF mains = {} THEN None
        ELSE Some(turns[CHOOSE k \in mains :
                          \A m \in mains : turns[m].turn_index >= turns[k].turn_index])

\* _get_last_main_turn: the non-follow-up turn with the highest turn_index
\* (.first() of the descending order), None when there is none
_get_last_main_turn(turns) ==
    LET mains == {k \in 1..Len(turns) : ~turns[k].is_followup}
    IN  IF mains = {} THEN None
        ELSE Some(turns[CHOOSE k \in mains :
                          \A m \in mains : turns[m].turn_index <= turns[k].turn_index])

\* _create_turn: the InterviewTurn row for this exchange.  question is the
\* detached QuestionBank row, whose question_text holds the refined text.
_create_turn(question, question_index, followup_count, decision, turns) ==
    LET parent_turn == _get_last_main_turn(turns)
    IN  [id                |-> Len(turns) + 1,
         turn_index        |-> Len(turns),
         question_id       |-> question.id,
         question_snapshot |-> question.question_text,
         score             |-> [overall |-> decision.satisfaction_score],
         parent_turn_id    |-> IF followup_count > 0 /\ parent_turn # None
                               THEN Some(parent_turn[1].id) ELSE None,
         question_number   |-> question_index,
         is_followup       |-> followup_count > 0]

----------------------------------------------------------------------------
(* Question lookup *)

\* plan_item.get("selected_question_id")
SelectedQuestionId(plan_item) ==
    IF "selected_question_id" \in DOMAIN plan_item
    THEN Some(plan_item["selected_question_id"]) ELSE None

\* SessionGet with a bug: a missing row is replaced by a stub row
SessionGetOrStub(bank, question_id) ==
    IF question_id # None
    THEN Some([id |-> question_id[1], question_text |-> QuestionText(question_id[1])])
    ELSE None

\* session.get(QuestionBank, question_id): the row, or None
SessionGet(bank, question_id) ==
    IF question_id # None /\ question_id[1] \in bank
    THEN Some([id |-> question_id[1], question_text |-> QuestionText(question_id[1])])
    ELSE None

\* interview_session.language if interview_session.language else "english"
SessionLanguage(lang) == IF lang = None THEN "english" ELSE lang[1]

\* the texts _refine_and_translate may return for the question of plan slot
\* `index` ({""} when the slot has no question to refine)
SlotRefinements(plan, bank, lang, index) ==
    LET item == IF index < Len(plan) THEN plan[index + 1] ELSE EmptyDict
        q    == SessionGet(bank, SelectedQuestionId(item))
    IN  IF q = None THEN {""}
        ELSE _refine_and_translate(q[1].question_text, Get(item, "type", "open"), lang)

\* _get_next_question_data.  refined_text is what _refine_and_translate
\* returns if this call invokes it.  Result: the response's next_question,
\* the state dict afterwards, and whether the refinement was invoked.
_get_next_question_data(next_index, plan, bank, lang, state, refined_text) ==
    IF next_index >= Len(plan)
    THEN [data |-> None, state |-> state, refined |-> FALSE]
    ELSE
      LET next_item     == plan[next_index + 1]
          next_question == SessionGet(bank, SelectedQuestionId(next_item))
          refined_key   == RefinedKey(next_index)
          cached        == state # EmptyDict /\ refined_key \in DOMAIN state
          question_text == IF cached THEN state[refined_key] ELSE refined_text
      IN  IF next_question = None
          THEN [data |-> None, state |-> state, refined |-> FALSE]
          ELSE [data |-> Some([question_id |-> next_question[1].id,
                               text |-> question_text,
                               type |-> Get(next_item, "type", "open")]),
                state |-> IF cached THEN state
                          ELSE DictSet(state, refined_key, question_text),
                refined |-> ~cached]

----------------------------------------------------------------------------
(* The decision step *)

\* the progress entry the four decision branches return
Progress(question_index, plan) ==
    [turn_index |-> question_index + 1, total |-> Len(plan)]

\* FollowupUpdate with a bug: the list is restarted instead of extended
FollowupUpdateDropsEarlier(state, question_id, followup_count, previous_followups, decision) ==
    [state EXCEPT
       !["current_question_id"] = question_id,
       !["followup_count"] = followup_count + 1,
       !["initial_answer_score"] = decision.satisfaction_score,
       !["previous_followups"] = <<decision.followup_question>>]

\* the state dict after the follow-up branch's four assignments
FollowupUpdate(state, question_id, followup_count, previous_followups, decision) ==
    [state EXCEPT
       !["current_question_id"] = question_id,
       !["followup_count"] = followup_count + 1,
       !["initial_answer_score"] = decision.satisfaction_score,
       !["previous_followups"] =
           Append(previous_followups, decision.followup_question)]

\* AdvanceUpdate with a bug: previous_followups is not cleared
AdvanceUpdateKeepsFollowups(state, question_index) ==
    [state EXCEPT
       !["question_index"] = question_index + 1,
       !["followup_count"] = 0]

\* AdvanceUpdate with a bug: followup_count is not reset
AdvanceUpdateKeepsCount(state, question_index) ==
    [state EXCEPT
       !["question_index"] = question_index + 1,
       !["previous_followups"] = <<>>]

\* the state dict after the advance branch's three assignments
AdvanceUpdate(state, question_index) ==
    [state EXCEPT
       !["question_index"] = question_index + 1,
       !["followup_count"] = 0,
       !["previous_followups"] = <<>>]

\* The branches of _process_decision.  Each yields: the state dict
\* afterwards, whether _save_state ran (saved), whether ended_at /
\* question_start_time were set (ended / started), whether the next slot's
\* refinement was invoked (refined), and the API response.

\* if decision.action == "followup" and decision.followup_question
DecideFollowup(decision, question_id, question_index, followup_count, previous_followups, plan, state) ==
    [state |-> FollowupUpdate(state, question_id, followup_count,
                              previous_followups, decision),
     saved |-> TRUE, ended |-> FALSE, started |-> FALSE, refined |-> FALSE,
     response |->
       [interviewer_message |-> IF decision.message # "" THEN decision.message
                                ELSE decision.followup_question,
        followup_question |-> Some([text |-> decision.followup_question]),
        next_question |-> None,
        is_done |-> FALSE,
        progress |-> Progress(question_index, plan),
        agent_decision |-> decision.action,
        agent_confidence |-> decision.satisfaction_score]]

\* DecideHint with a bug: the hint is counted as a follow-up
DecideHintCountsFollowup(decision, question_index, plan, state) ==
    [state |-> [state EXCEPT !["followup_count"] = @ + 1],
     saved |-> TRUE, ended |-> FALSE, started |-> FALSE, refined |-> FALSE,
     response |->
       [interviewer_message |-> IF decision.message # "" THEN decision.message
                                ELSE "Let me give you a hint.",
        followup_question |-> None,
        next_question |-> None,
        is_done |-> FALSE,
        progress |-> Progress(question_index, plan),
        agent_decision |-> decision.action]]

\* if decision.action == "hint"
DecideHint(decision, question_index, plan, state) ==
    [state |-> state,
     saved |-> FALSE, ended |-> FALSE, started |-> FALSE, refined |-> FALSE,
     response |->
       [interviewer_message |-> IF decision.message # "" THEN decision.message
                                ELSE "Let me give you a hint.",
        followup_question |-> None,
        next_question |-> None,
        is_done |-> FALSE,
        progress |-> Progress(question_index, plan),
        agent_decision |-> decision.action]]

\* DecideEnd with a bug: ended_at is not written
DecideEndLeavesOpen(decision, question_index, plan, state) ==
    [state |-> state,
     saved |-> FALSE, ended |-> FALSE, started |-> FALSE, refined |-> FALSE,
     response |->
       [interviewer_message |-> IF decision.message # "" THEN decision.message
                                ELSE "Thank you for your time today.",
        followup_question |-> None,
        next_question |-> None,
        is_done |-> TRUE,
        progress |-> Progress(question_index, plan),
        agent_decision |-> decision.action]]

\* if decision.action == "end"
DecideEnd(decision, question_index, plan, state) ==
    [state |-> state,
     saved |-> FALSE, ended |-> TRUE, started |-> FALSE, refined |-> FALSE,
     response |->
       [interviewer_message |-> IF decision.message # "" THEN decision.message
                                ELSE "Thank you for your time today.",
        followup_question |-> None,
        next_question |-> None,
        is_done |-> TRUE,
        progress |-> Progress(question_index, plan),
        agent_decision |-> decision.action]]

\* DecideAdvance with a bug: the last advance also writes ended_at
DecideAdvanceEndsSession(decision, question_index, plan, bank, state, lang, refined_next) ==
    LET next == _get_next_question_data(question_index + 1, plan, bank, lang,
                                        AdvanceUpdate(state, question_index),
                                        refined_next)
    IN
    [state |-> next.state,
     saved |-> TRUE, ended |-> question_index + 1 >= Len(plan),
     started |-> TRUE, refined |-> next.refined,
     response |->
       [interviewer_message |->
          IF decision.message # "" THEN decision.message
          ELSE IF next.data # None
               THEN (IF Lower(lang) = "hebrew" THEN "he: next question"
                     ELSE "Let's move to the next question.")
               ELSE (IF Lower(lang) = "hebrew" THEN "he: continue"
                     ELSE "Great! Let's continue."),
        followup_question |-> None,
        next_question |-> next.data,
        is_done |-> question_index + 1 >= Len(plan),
        progress |-> Progress(question_index, plan),
        agent_decision |-> decision.action,
        agent_confidence |-> decision.satisfaction_score]]

\* default: advance to the next question
DecideAdvance(decision, question_index, plan, bank, state, lang, refined_next) ==
    LET next == _get_next_question_data(question_index + 1, plan, bank, lang,
                                        AdvanceUpdate(state, question_index),
                                        refined_next)
        hebrew == Lower(lang) = "hebrew"
    IN
    [state |-> next.state,
     saved |-> TRUE, ended |-> FALSE, started |-> TRUE, refined |-> next.refined,
     response |->
       [interviewer_message |->
          IF decision.message # "" THEN decision.message
          ELSE IF next.data # None
               THEN (IF hebrew THEN "he: next question"
                     ELSE "Let's move to the next question.")
               ELSE (IF hebrew THEN "he: continue" ELSE "Great! Let's continue."),
        followup_question |-> None,
        next_question |-> next.data,
        is_done |-> question_index + 1 >= Len(plan),
        progress |-> Progress(question_index, plan),
        agent_decision |-> decision.action,
        agent_confidence |-> decision.satisfaction_score]]

\* _process_decision
\* _process_decision with a bug: a follow-up without a text is a follow-up
ProcessDecisionAnyFollowup(decision, question_id, question_index, followup_count, previous_followups, plan, bank, state, lang, refined_next) ==
    IF decision.action = "followup"
    THEN DecideFollowup(decision, question_id, question_index, followup_count,
                        previous_followups, plan, state)
    ELSE IF decision.action = "hint"
    THEN DecideHint(decision, question_index, plan, state)
    ELSE IF decision.action = "end"
    THEN DecideEnd(decision, question_index, plan, state)
    ELSE DecideAdvance(decision, question_index, plan, bank, state, lang,
                       refined_next)

_process_decision(decision, question_id, question_index, followup_count, previous_followups, plan, bank, state, lang, refined_next) ==
    IF decision.action = "followup" /\ decision.followup_question # ""
    THEN DecideFollowup(decision, question_id, question_index, followup_count,
                        previous_followups, plan, state)
    ELSE IF decision.action = "hint"
    THEN DecideHint(decision, question_index, plan, state)
    ELSE IF decision.action = "end"
    THEN DecideEnd(decision, question_index, plan, state)
    ELSE DecideAdvance(decision, question_index, plan, bank, state, lang,
                       refined_next)

\* FallbackDecision with a bug: the fallback scores the answer 0
FallbackDecisionZeroScore ==
    [action |-> "advance", message |-> "Let's continue with the next question.",
     followup_question |-> "", satisfaction_score |-> 0]

\* FallbackDecision with a bug: the substitute decision stays on the question
FallbackDecisionHint ==
    [action |-> "hint", message |-> "Let's continue with the next question.",
     followup_question |-> "", satisfaction_score |-> 5]

\* the AgentDecision process_turn substitutes when reasoning_loop.run raises
FallbackDecision ==
    [action |-> "advance", message |-> "Let's continue with the next question.",
     followup_question |-> "", satisfaction_score |-> 5]

----------------------------------------------------------------------------
(* process_turn *)

\* the response of the completion check
CompleteResponse(question_index, total) ==
    [interviewer_message |-> "Thank you! The interview is complete.",
     followup_question |-> None,
     next_question |-> None,
     is_done |-> TRUE,
     progress |-> [turn_index |-> question_index, total |-> total]]

\* _error_response
_error_response(question_index, total) ==
    [interviewer_message |-> "Sorry, I hit an error loading the question.",
     followup_question |-> None,
     next_question |-> None,
     is_done |-> TRUE,
     progress |-> [turn_index |-> question_index, total |-> total]]

\* IsComplete with a bug: off by one
IsCompleteStrict(followup_count, question_index, total) ==
    followup_count = 0 /\ question_index > total

\* the completion check at the start of process_turn
IsComplete(followup_count, question_index, total) ==
    followup_count = 0 /\ question_index >= total

\* RecordTurn with a bug: a turn on the slot of the last row replaces that row
RecordTurnReplacesLast(turns, turn) ==
    IF turns # <<>> /\ turns[Len(turns)].question_number = turn.question_number
    THEN [turns EXCEPT ![Len(turns)] = turn]
    ELSE Append(turns, turn)

\* session.add(turn); session.commit(): the turn table with the new row
RecordTurn(turns, turn) == Append(turns, turn)

\* refine_calls after one more invocation for slot index
CountRefine(calls, index) ==
    IF index \in DOMAIN calls THEN [calls EXCEPT ![index] = @ + 1] ELSE calls

\* One invocation of AgenticInterviewAgent.process_turn on the session.
\*   run          : what reasoning_loop.run does if it is reached
\*   refined_text : what _refine_and_translate returns for the current slot
\*   refined_next : what it returns for the next slot, if invoked
\* (\E x \in {e} binds the local x to the value of e.)
process_turn(run, refined_text, refined_next) ==
    /\ clock' = clock + 1
    /\ UNCHANGED <<language, plan_items, question_bank, inflight>>
    /\ IF LoadRaises(conversation_state_json)
       THEN \* json.loads raises; nothing catches it
            /\ raised' = TRUE
            /\ response' = None
            /\ loaded' = None
            /\ run_result' = None
            /\ UNCHANGED <<conversation_state_json, ended_at, question_start_time,
                           interview_turns, refine_calls>>
       ELSE
         \E state \in {_load_state(conversation_state_json)} :
         \E followup_count \in {state["followup_count"]},
            question_index \in {state["question_index"]},
            previous_followups \in {state["previous_followups"]},
            total \in {Len(plan_items)} :
         /\ raised' = FALSE
         /\ loaded' = Some(state)
         /\ IF IsComplete(followup_count, question_index, total)
            THEN \* the interview is complete
                 /\ ended_at' = Some(clock + 1)
                 /\ response' = CompleteResponse(question_index, total)
                 /\ run_result' = None
                 /\ UNCHANGED <<conversation_state_json, question_start_time,
                                interview_turns, refine_calls>>
            ELSE
              \E plan_item \in {IF question_index < total
                                THEN plan_items[question_index + 1] ELSE EmptyDict} :
              \E question_id \in {IF followup_count > 0
                                  THEN state["current_question_id"]
                                  ELSE SelectedQuestionId(plan_item)} :
              \E question \in {SessionGet(question_bank, question_id)} :
              IF question = None
              THEN /\ response' = _error_response(question_index, total)
                   /\ run_result' = None
                   /\ UNCHANGED <<conversation_state_json, ended_at,
                                  question_start_time, interview_turns, refine_calls>>
              ELSE
                \E refined_key \in {RefinedKey(question_index)},
                   lang \in {SessionLanguage(language)} :
                \E cached \in {refined_key \in DOMAIN state} :
                \E text \in {IF cached THEN state[refined_key] ELSE refined_text} :
                \E state1 \in {IF cached THEN state
                               ELSE DictSet(state, refined_key, text)},
                   decision \in {IF run.raised THEN FallbackDecision
                                 ELSE run.decision} :
                \E turn \in {_create_turn([question[1] EXCEPT !.question_text = text],
                                          question_index, followup_count, decision,
                                          interview_turns)},
                   eff \in {_process_decision(decision, question_id, question_index,
                                              followup_count, previous_followups,
                                              plan_items, question_bank, state1,
                                              lang, refined_next)},
                   calls1 \in {IF cached THEN refine_calls
                               ELSE CountRefine(refine_calls, question_index)} :
                /\ run_result' = Some(run)
                /\ interview_turns' = RecordTurn(interview_turns, turn)
                /\ conversation_state_json' =
                       IF eff.saved THEN Some(JsonDumps(eff.state))
                       ELSE IF cached THEN conversation_state_json
                       ELSE Some(JsonDumps(state1))
                /\ ended_at' = IF eff.ended THEN Some(clock + 1) ELSE ended_at
                /\ question_start_time' =
                       IF eff.started THEN Some(clock + 1) ELSE question_start_time
                /\ refine_calls' = IF eff.refined
                                   THEN CountRefine(calls1, question_index + 1)
                                   ELSE calls1
                /\ response' = eff.response

----------------------------------------------------------------------------
(* Specifications *)

\* the question banks of the model for a plan: every planned question
\* exists, or exactly one is missing
Banks(plan) ==
    LET ids == {plan[k]["selected_question_id"] : k \in 1..Len(plan)}
    IN  {ids} \cup {ids \ {q} : q \in ids}

\* neither the plan builder, nor a side-effect-free function, nor the
\* readiness computation is running
BeyondSelectIdle ==
    /\ building = None
    /\ evaluation = None
    /\ store = None
    /\ snapshots = <<>>

\* no component other than the turn state machine is running
OfflineIdle ==
    /\ question_rows = {}
    /\ history = <<>>
    /\ selection = None
    /\ BeyondSelectIdle

\* everything of a fresh session but the conversation-state blob
InitSession ==
    /\ OfflineIdle
    /\ ended_at = None
    /\ question_start_time = None
    /\ language \in Languages
    /\ plan_items \in Plans
    /\ question_bank \in Banks(plan_items)
    /\ interview_turns = <<>>
    /\ clock = 0
    /\ response = None
    /\ raised = FALSE
    /\ loaded = None
    /\ run_result = None
    /\ refine_calls = [i \in 0..MaxPlan |-> 0]

\* a session whose conversation state was never written; its invocations
\* run one at a time
Init ==
    /\ conversation_state_json = None
    /\ InitSession
    /\ inflight = <<>>

\* the texts the refinement of the current slot may return to the pending
\* invocation ({""} when the invocation does not get that far)
TurnRefinements ==
    IF LoadRaises(conversation_state_json) THEN {""}
    ELSE LET state == _load_state(conversation_state_json)
             index == state["question_index"]
         IN  IF state["followup_count"] > 0
             THEN LET q == SessionGet(question_bank, state["current_question_id"])
                  IN  IF q = None THEN {""}
                      ELSE _refine_and_translate(q[1].question_text, "open",
                                                 SessionLanguage(language))
             ELSE SlotRefinements(plan_items, question_bank,
                                  SessionLanguage(language), index)

\* the same for the slot after the current one
NextRefinements ==
    IF LoadRaises(conversation_state_json) THEN {""}
    ELSE SlotRefinements(plan_items, question_bank, SessionLanguage(language),
                         _load_state(conversation_state_json)["question_index"] + 1)

Next ==
    /\ clock < MaxCalls
    /\ UNCHANGED offline_vars
    /\ \E run \in RunResults, refined_text \in TurnRefinements,
          refined_next \in NextRefinements :
            process_turn(run, refined_text, refined_next)

Spec == Init /\ [][Next]_vars

\* blobs a session row may hold when process_turn first sees it: never
\* written, not JSON, a legacy object without the counters, an object that
\* already carries a refined text for slot 0
StoredBlobs ==
    {None,
     Some(Unparsable),
     Some(JsonDumps([question_index |-> 1])),
     Some(JsonDumps(DictSet(_load_state(None), RefinedKey(0), "scenario")))}

InitStored ==
    /\ conversation_state_json \in StoredBlobs
    /\ InitSession
    /\ inflight = <<>>

SpecStored == InitStored /\ [][Next]_vars

----------------------------------------------------------------------------
(* Overlapping invocations.  process_turn takes no lock: between its        *)
(* commits another request on the same session may run.  An invocation is   *)
(* cut at its commits and at the queries that read what another invocation  *)
(* writes.                                                                  *)

\* the requests on the session
Invocations == {1, 2}

\* the other request
Peer(p) == 3 - p

\* an invocation that has not begun.  peer: where the other invocation
\* stood when this one loaded the state
Idle ==
    [pc |-> "idle", peer |-> "idle", state |-> EmptyDict, question_id |-> None,
     question |-> None, decision |-> None, turn |-> None, advanced |-> FALSE]

\* uuid.uuid4() of invocation p: an id no other row has
Uuid4(p) == 0 - p

\* WorkingState with a change: the state is read again before the decision
\* is applied
WorkingStateReloaded(local, blob) == _load_state(blob)

\* the state dict an invocation works on when it applies its decision: the
\* dict it loaded at its start; the stored blob is not read again
WorkingState(local, blob) == local

\* the decision is handled by the default branch of _process_decision
TakesAdvanceBranch(decision) ==
    /\ ~(decision.action = "followup" /\ decision.followup_question # "")
    /\ decision.action \notin {"hint", "end"}

\* the plan item of an invocation whose state dict is `state`
CurrentPlanItem(state) ==
    IF state["question_index"] < Len(plan_items)
    THEN plan_items[state["question_index"] + 1] ELSE EmptyDict

\* lines 120-144: load the state, completion check, question lookup
BeginTurn(p) ==
    /\ inflight[p].pc = "idle"
    /\ clock' = clock + 1
    /\ UNCHANGED <<language, plan_items, question_bank, conversation_state_json,
                   question_start_time, interview_turns, refine_calls, run_result>>
    /\ IF LoadRaises(conversation_state_json)
       THEN /\ raised' = TRUE
            /\ response' = None
            /\ loaded' = None
            /\ UNCHANGED ended_at
            /\ inflight' = [inflight EXCEPT ![p].pc = "done",
                                            ![p].peer = inflight[Peer(p)].pc]
       ELSE
         \E state \in {_load_state(conversation_state_json)} :
         \E question_id \in {IF state["followup_count"] > 0
                             THEN state["current_question_id"]
                             ELSE SelectedQuestionId(CurrentPlanItem(state))},
            total \in {Len(plan_items)} :
         /\ raised' = FALSE
         /\ loaded' = Some(state)
         /\ IF IsComplete(state["followup_count"], state["question_index"], total)
            THEN /\ ended_at' = Some(clock + 1)
                 /\ response' = CompleteResponse(state["question_index"], total)
                 /\ inflight' = [inflight EXCEPT ![p].pc = "done",
                                                 ![p].state = state,
                                                 ![p].peer = inflight[Peer(p)].pc]
            ELSE IF SessionGet(question_bank, question_id) = None
            THEN /\ response' = _error_response(state["question_index"], total)
                 /\ UNCHANGED ended_at
                 /\ inflight' = [inflight EXCEPT ![p].pc = "done",
                                                 ![p].state = state,
                                                 ![p].peer = inflight[Peer(p)].pc]
            ELSE /\ UNCHANGED <<ended_at, response>>
                 /\ inflight' = [inflight EXCEPT
                                   ![p].pc = "loaded",
                                   ![p].state = state,
                                   ![p].peer = inflight[Peer(p)].pc,
                                   ![p].question_id = question_id,
                                   ![p].question = SessionGet(question_bank, question_id)]

\* lines 146-171: the refinement check and its _save_state
RefineQuestion(p, refined_text) ==
    /\ inflight[p].pc = "loaded"
    /\ \E state \in {inflight[p].state} :
       \E refined_key \in {RefinedKey(state["question_index"])} :
       \E cached \in {refined_key \in DOMAIN state} :
       \E text \in {IF cached THEN state[refined_key] ELSE refined_text} :
         /\ conversation_state_json' =
                IF cached THEN conversation_state_json
                ELSE Some(JsonDumps(DictSet(state, refined_key, text)))
         /\ refine_calls' = IF cached THEN refine_calls
                            ELSE CountRefine(refine_calls, state["question_index"])
         /\ inflight' = [inflight EXCEPT
                           ![p].pc = "refined",
                           ![p].state = IF cached THEN state
                                        ELSE DictSet(state, refined_key, text),
                           ![p].question =
                               Some([inflight[p].question[1] EXCEPT !.question_text = text])]
    /\ UNCHANGED <<ended_at, question_start_time, language, plan_items,
                   question_bank, interview_turns, clock, response, raised,
                   loaded, run_result>>

\* lines 191-212: the reasoning loop, then _create_turn, which counts the
\* session's rows and looks up the last main turn
CreateTurn(p, run) ==
    /\ inflight[p].pc = "refined"
    /\ \E state \in {inflight[p].state},
          decision \in {IF run.raised THEN FallbackDecision ELSE run.decision} :
         inflight' = [inflight EXCEPT
                        ![p].pc = "created",
                        ![p].decision = Some(decision),
                        ![p].turn =
                            Some([_create_turn(inflight[p].question[1],
                                               state["question_index"],
                                               state["followup_count"],
                                               decision, interview_turns)
                                     EXCEPT !.id = Uuid4(p)])]
    /\ run_result' = Some(run)
    /\ UNCHANGED <<conversation_state_json, ended_at, question_start_time,
                   language, plan_items, question_bank, interview_turns, clock,
                   response, raised, loaded, refine_calls>>

\* lines 213-214: session.add(turn); session.commit()
CommitTurn(p) ==
    /\ inflight[p].pc = "created"
    /\ interview_turns' = RecordTurn(interview_turns, inflight[p].turn[1])
    /\ inflight' = [inflight EXCEPT ![p].pc = "committed"]
    /\ UNCHANGED <<conversation_state_json, ended_at, question_start_time,
                   language, plan_items, question_bank, clock, response, raised,
                   loaded, run_result, refine_calls>>

\* lines 216-229: _process_decision on the invocation's own state dict
ApplyDecision(p, refined_next) ==
    /\ inflight[p].pc = "committed"
    /\ \E state \in {WorkingState(inflight[p].state, conversation_state_json)},
          decision \in {inflight[p].decision[1]} :
       \E eff \in {_process_decision(decision, inflight[p].question_id,
                                     state["question_index"],
                                     state["followup_count"],
                                     state["previous_followups"],
                                     plan_items, question_bank, state,
                                     SessionLanguage(language), refined_next)} :
         /\ conversation_state_json' =
                IF eff.saved THEN Some(JsonDumps(eff.state))
                ELSE conversation_state_json
         /\ ended_at' = IF eff.ended THEN Some(clock) ELSE ended_at
         /\ question_start_time' =
                IF eff.started THEN Some(clock) ELSE question_start_time
         /\ refine_calls' = IF eff.refined
                            THEN CountRefine(refine_calls, state["question_index"] + 1)
                            ELSE refine_calls
         /\ response' = eff.response
         /\ inflight' = [inflight EXCEPT
                           ![p].pc = "done",
                           ![p].advanced = TakesAdvanceBranch(decision)]
    /\ UNCHANGED <<language, plan_items, question_bank, interview_turns, clock,
                   raised, loaded, run_result>>

\* a fresh session with two requests about to arrive
InitOverlap ==
    /\ conversation_state_json = None
    /\ InitSession
    /\ inflight = [p \in Invocations |-> Idle]

\* the texts the refinement of the slot `ahead` slots after the slot of
\* invocation p may return ({""} while p has no state dict)
InvocationRefinements(p, ahead) ==
    IF inflight[p].state = EmptyDict THEN {""}
    ELSE SlotRefinements(plan_items, question_bank, SessionLanguage(language),
                         inflight[p].state["question_index"] + ahead)

\* what the reasoning loop may do in an overlapping invocation: every
\* action, the failure, one follow-up text, no message
OverlapRuns ==
    {run \in RunResults :
        run.raised \/ (/\ run.decision.message = ""
                       /\ run.decision.followup_question \in {"", "why?"})}

NextOverlap ==
    /\ UNCHANGED offline_vars
    /\ \E p \in Invocations :
           \/ BeginTurn(p)
           \/ \E refined_text \in InvocationRefinements(p, 0) :
                  RefineQuestion(p, refined_text)
           \/ \E run \in OverlapRuns : CreateTurn(p, run)
           \/ CommitTurn(p)
           \/ \E refined_next \in InvocationRefinements(p, 1) :
                  ApplyDecision(p, refined_next)

SpecOverlap == InitOverlap /\ [][NextOverlap]_vars

----------------------------------------------------------------------------
(* Properties of the turn state machine *)

\* the ConversationState the last invocation loaded
Entry == loaded[1]

\* the ConversationState now persisted
Persisted == _load_state(conversation_state_json)

\* the last invocation reached the reasoning loop and got a decision
Judged == run_result # None /\ ~run_result[1].raised

\* that decision
Judgment == run_result[1].decision

\* the last invocation's reasoning loop raised
ReasoningFailed == run_result # None /\ run_result[1].raised

\* the last invocation took the default (advance) branch
Advanced ==
    \/ ReasoningFailed
    \/ /\ Judged
       /\ Judgment.action \notin {"hint", "end"}
       /\ ~(Judgment.action = "followup" /\ Judgment.followup_question # "")

\* the most recent Turn
LastTurn == interview_turns[Len(interview_turns)]

\* C1: a followup judgment that carries a follow-up text keeps
\* question_index, adds 1 to followup_count, appends the text to
\* previous_followups, stores the satisfaction score as initial_answer_score,
\* sets current_question_id to the question just asked, and returns
\* is_done = false with the text in followup_question.
C1_FollowupStaysOnQuestion ==
    (Judged /\ Judgment.action = "followup" /\ Judgment.followup_question # "") =>
        /\ Persisted["question_index"] = Entry["question_index"]
        /\ Persisted["followup_count"] = Entry["followup_count"] + 1
        /\ Persisted["previous_followups"] =
               Entry["previous_followups"] \o <<Judgment.followup_question>>
        /\ Persisted["initial_answer_score"] = Judgment.satisfaction_score
        /\ Persisted["current_question_id"] = Some(LastTurn.question_id)
        /\ response.is_done = FALSE
        /\ response.followup_question = Some([text |-> Judgment.followup_question])

\* C1 witness: a second follow-up, with a different text, on the same question
C1_Witness ==
    /\ Judged /\ Judgment.action = "followup" /\ Judgment.followup_question # ""
    /\ Entry["previous_followups"] # <<>>
    /\ Entry["previous_followups"][1] # Judgment.followup_question
    /\ Persisted["followup_count"] = 2

\* C2: an advance decision taken at (question_index = i, followup_count = k,
\* any previous_followups) persists question_index = i + 1,
\* followup_count = 0 and previous_followups empty.
C2_AdvanceResets ==
    (Judged /\ Judgment.action = "advance") =>
        /\ Persisted["question_index"] = Entry["question_index"] + 1
        /\ Persisted["followup_count"] = 0
        /\ Persisted["previous_followups"] = <<>>

\* C2 witness: an advance taken after a follow-up
C2_Witness ==
    /\ Judged /\ Judgment.action = "advance"
    /\ Entry["followup_count"] > 0
    /\ Entry["previous_followups"] # <<>>
    /\ Persisted["question_index"] = 1

\* C3: the refinement capability is invoked at most once per question slot,
\* and all turns on one slot are presented the same text.
C3_RefinementMemoized ==
    /\ \A i \in DOMAIN refine_calls : refine_calls[i] <= 1
    /\ \A j, k \in 1..Len(interview_turns) :
           interview_turns[j].question_number = interview_turns[k].question_number
               => interview_turns[j].question_snapshot
                      = interview_turns[k].question_snapshot

\* C4: from a persisted state with followup_count = 0 and
\* question_index >= len(plan), the next invocation returns is_done = true,
\* appends no Turn, sets ended_at and leaves the ConversationState unchanged.
C4_CompletionCheck ==
    [][(/\ ~LoadRaises(conversation_state_json)
        /\ Persisted["followup_count"] = 0
        /\ Persisted["question_index"] >= Len(plan_items))
       => (/\ ~raised'
           /\ response'.is_done = TRUE
           /\ interview_turns' = interview_turns
           /\ ended_at' = Some(clock')
           /\ conversation_state_json' = conversation_state_json)]_vars

\* C4 witness: the invocation after the last question of a non-empty plan
C4_Witness ==
    /\ loaded # None
    /\ Entry["followup_count"] = 0
    /\ Entry["question_index"] = Len(plan_items)
    /\ Len(plan_items) > 0
    /\ Len(interview_turns) > 0
    /\ response # None /\ response.is_done
    /\ ended_at = Some(clock)

\* the last invocation advanced question_index to len(plan)
AdvancedToEnd == Advanced /\ Persisted["question_index"] = Len(plan_items)

\* C5 as claimed: the advance that moves question_index to len(plan) neither
\* sets ended_at nor reports is_done = true.
C5_AdvanceToEndNotReported ==
    AdvancedToEnd => (ended_at # Some(clock) /\ response.is_done = FALSE)

\* C5 amended: the advance that moves question_index to len(plan) does not
\* set ended_at, although its response already reports is_done = true;
\* ended_at is set by the invocation that finds the state complete.
C5_AdvanceToEndNotMarked ==
    /\ AdvancedToEnd => (ended_at # Some(clock) /\ response.is_done = TRUE)
    /\ (/\ loaded # None
        /\ Entry["followup_count"] = 0
        /\ Entry["question_index"] >= Len(plan_items))
       => (ended_at = Some(clock) /\ response.is_done = TRUE)

\* C5 witness: the last question of a non-empty plan was just advanced past
C5_Witness ==
    /\ AdvancedToEnd
    /\ Len(plan_items) > 0
    /\ ended_at = None
    /\ response.is_done = TRUE

\* C6: an end decision, at any question_index, sets ended_at and returns
\* is_done = true in the same invocation.
C6_EndTerminates ==
    (Judged /\ Judgment.action = "end") =>
        (ended_at = Some(clock) /\ response.is_done = TRUE)

\* C6 witness: an end decision with plan items still remaining
C6_Witness ==
    /\ Judged /\ Judgment.action = "end"
    /\ Entry["question_index"] + 1 < Len(plan_items)
    /\ ended_at = Some(clock)

\* C7: a hint decision leaves the five ConversationState fields unchanged,
\* does not set ended_at, and returns is_done = false with neither a
\* follow-up question nor a next question.
C7_HintChangesNothing ==
    (Judged /\ Judgment.action = "hint") =>
        /\ Persisted["question_index"] = Entry["question_index"]
        /\ Persisted["followup_count"] = Entry["followup_count"]
        /\ Persisted["previous_followups"] = Entry["previous_followups"]
        /\ Persisted["current_question_id"] = Entry["current_question_id"]
        /\ Persisted["initial_answer_score"] = Entry["initial_answer_score"]
        /\ ended_at # Some(clock)
        /\ response.is_done = FALSE
        /\ response.followup_question = None
        /\ response.next_question = None

\* C7 witness: a hint given while a follow-up is pending
C7_Witness ==
    /\ Judged /\ Judgment.action = "hint"
    /\ Entry["followup_count"] > 0
    /\ Persisted["previous_followups"] # <<>>

\* the question the pending invocation is about exists in the store
CurrentQuestionExists ==
    LET state == Persisted
        item  == IF state["question_index"] < Len(plan_items)
                 THEN plan_items[state["question_index"] + 1] ELSE EmptyDict
        qid   == IF state["followup_count"] > 0 THEN state["current_question_id"]
                 ELSE SelectedQuestionId(item)
    IN  qid # None /\ qid[1] \in question_bank

\* C8: every invocation on a session that is not complete and whose current
\* question exists appends exactly one Turn, whatever the action; existing
\* Turns are never modified.
C8_OneTurnPerInvocation ==
    [][/\ Len(interview_turns') >= Len(interview_turns)
       /\ SubSeq(interview_turns', 1, Len(interview_turns)) = interview_turns
       /\ (/\ clock' = clock + 1
           /\ ~LoadRaises(conversation_state_json)
           /\ ~(Persisted["followup_count"] = 0
                /\ Persisted["question_index"] >= Len(plan_items))
           /\ CurrentQuestionExists)
          => Len(interview_turns') = Len(interview_turns) + 1]_vars

\* C8 witness: two invocations on one slot, the second answered by a hint,
\* each left a Turn
C8_Witness ==
    /\ Len(interview_turns) = clock
    /\ clock >= 2
    /\ Judged /\ Judgment.action = "hint"
    /\ LastTurn.question_number = interview_turns[1].question_number
    /\ LastTurn.turn_index = 1

\* C9: when the reasoning capability raises, process_turn does not fail; it
\* records a Turn with overall score 0.5 and advances: question_index + 1,
\* followup_count = 0, previous_followups empty.
C9_ReasoningFailureAdvances ==
    ReasoningFailed =>
        /\ ~raised
        /\ response # None
        /\ LastTurn.score.overall = 5
        /\ LastTurn.turn_index = Len(interview_turns) - 1
        /\ Persisted["question_index"] = Entry["question_index"] + 1
        /\ Persisted["followup_count"] = 0
        /\ Persisted["previous_followups"] = <<>>

\* C9 witness: the reasoning loop raised while a follow-up was pending
C9_Witness ==
    /\ ReasoningFailed
    /\ Entry["followup_count"] > 0
    /\ Persisted["question_index"] = 1

\* C10: a conversation-state blob that is not JSON is treated as the default
\* state (question_index = 0, followup_count = 0, previous_followups empty)
\* and never makes the turn fail.
C10_MalformedStateIsDefault ==
    [][LoadRaises(conversation_state_json)
       => (~raised' /\ loaded' = Some(_load_state(None)))]_vars

\* the pending invocation will get past the completion check
Incomplete ==
    /\ ~LoadRaises(conversation_state_json)
    /\ ~(Persisted["followup_count"] = 0
         /\ Persisted["question_index"] >= Len(plan_items))

\* C11: when the question of the current turn is not in the question store,
\* process_turn returns the error response, appends no Turn, and leaves
\* question_index, followup_count and previous_followups of the persisted
\* ConversationState unchanged.
C11_MissingQuestionIsError ==
    [][(Incomplete /\ ~CurrentQuestionExists)
       => (/\ ~raised'
           /\ response'.interviewer_message
                  = "Sorry, I hit an error loading the question."
           /\ response'.followup_question = None
           /\ response'.next_question = None
           /\ interview_turns' = interview_turns
           /\ Persisted'["question_index"] = Persisted["question_index"]
           /\ Persisted'["followup_count"] = Persisted["followup_count"]
           /\ Persisted'["previous_followups"] = Persisted["previous_followups"])]_vars

\* C11 witness: the question of the second slot is missing; the first slot's
\* Turn is the only one after the invocation on the second slot
C11_Witness ==
    /\ loaded # None
    /\ Entry["question_index"] = 1
    /\ Len(plan_items) = 2
    /\ PlanQuestionId(1) \notin question_bank
    /\ response.interviewer_message = "Sorry, I hit an error loading the question."
    /\ Len(interview_turns) = 1
    /\ Persisted["question_index"] = 1

\* C12: in a session run serially from the default state, every Turn's
\* question_id is the selected question id of the plan item at the Turn's
\* question_number (follow-up Turns included); and whenever
\* followup_count > 0, question_index < len(plan) and current_question_id is
\* the selected question id of plan[question_index].
C12_TurnsFollowThePlan ==
    /\ \A k \in 1..Len(interview_turns) :
           /\ interview_turns[k].question_number < Len(plan_items)
           /\ Some(interview_turns[k].question_id)
                  = SelectedQuestionId(plan_items[interview_turns[k].question_number + 1])
    /\ Persisted["followup_count"] > 0 =>
           /\ Persisted["question_index"] < Len(plan_items)
           /\ Persisted["current_question_id"]
                  = SelectedQuestionId(plan_items[Persisted["question_index"] + 1])

\* C12 witness: a follow-up Turn on the second slot, with a follow-up pending
C12_Witness ==
    /\ interview_turns # <<>>
    /\ LastTurn.is_followup
    /\ LastTurn.question_number = 1
    /\ LastTurn.question_id = PlanQuestionId(1)
    /\ Persisted["followup_count"] > 0
    /\ Persisted["current_question_id"] = Some(PlanQuestionId(1))

\* the positions before k of the Turns with is_followup = false
MainsBefore(k) == {j \in 1..(k - 1) : ~interview_turns[j].is_followup}

\* C13: a Turn recorded while followup_count > 0 has is_followup = true and
\* its parent_turn_id names the Turn with the highest turn_index among the
\* earlier Turns with is_followup = false, which is a Turn on the same slot
\* (same question_number and question_id); a Turn recorded while
\* followup_count = 0 has is_followup = false and no parent.
C13_FollowupsHangOffTheirMainTurn ==
    /\ run_result # None => LastTurn.is_followup = (Entry["followup_count"] > 0)
    /\ \A k \in 1..Len(interview_turns) :
         LET turn == interview_turns[k]
         IN  IF turn.is_followup
             THEN /\ MainsBefore(k) # {}
                  /\ \E j \in MainsBefore(k) :
                       /\ \A m \in MainsBefore(k) :
                              interview_turns[m].turn_index
                                  <= interview_turns[j].turn_index
                       /\ turn.parent_turn_id = Some(interview_turns[j].id)
                       /\ interview_turns[j].question_number = turn.question_number
                       /\ interview_turns[j].question_id = turn.question_id
             ELSE turn.parent_turn_id = None

\* C13 witness: a follow-up Turn on the second slot whose parent is the
\* second slot's main Turn, not the first slot's
C13_Witness ==
    /\ Len(interview_turns) = 3
    /\ run_result # None
    /\ Entry["followup_count"] > 0
    /\ LastTurn.is_followup
    /\ LastTurn.question_number = 1
    /\ LastTurn.parent_turn_id = Some(interview_turns[2].id)
    /\ ~interview_turns[1].is_followup

----------------------------------------------------------------------------
(* Properties of overlapping invocations *)

\* both requests have returned
BothReturned == \A p \in Invocations : inflight[p].pc = "done"

\* both invocations loaded the state before either saved it
Overlapped == \E p \in Invocations : inflight[p].peer = "loaded"

\* one invocation returned before the other began
Serialized == \E p \in Invocations : inflight[p].peer = "done"

\* the invocations that took the advance branch
Advancers == {p \in Invocations : inflight[p].advanced}

\* C14: process_turn takes no lock.  When two invocations overlap (both load
\* the state before either saves it) and both advance, question_index grows
\* by 1 only: one update is lost, and the two Turns may carry the same
\* turn_index.  When the invocations are serialized, question_index grows by
\* the number of advance decisions and the turn_index values are 0..n-1.
C14_OverlapLosesAnUpdate ==
    /\ (BothReturned /\ Overlapped /\ Advancers = Invocations) =>
           /\ Persisted["question_index"]
                  = inflight[1].state["question_index"] + 1
           /\ inflight[2].state["question_index"]
                  = inflight[1].state["question_index"]
    /\ (BothReturned /\ Serialized) =>
           /\ Persisted["question_index"] = Cardinality(Advancers)
           /\ \A k \in 1..Len(interview_turns) :
                  interview_turns[k].turn_index = k - 1

\* C14 witness: two overlapping advances on a plan of two questions; the
\* session is on the second question, not past it, and both Turns carry
\* turn_index 0
C14_Witness ==
    /\ BothReturned /\ Overlapped /\ Advancers = Invocations
    /\ Len(plan_items) = 2
    /\ Persisted["question_index"] = 1
    /\ Len(interview_turns) = 2
    /\ interview_turns[1].turn_index = 0
    /\ interview_turns[2].turn_index = 0
    /\ interview_turns[1].id # interview_turns[2].id

----------------------------------------------------------------------------
(* Part 2: the question selector, interview_backend/question_selector.py.  *)
(* Question ids are the integer primary keys of the QuestionBank table.    *)
(* A float that is a quotient is kept as the pair <<numerator,             *)
(* denominator>> and compared by cross-multiplication.                     *)

\* config.MAX_RECENT_SESSIONS
MAX_RECENT_SESSIONS == 3

\* largest num_questions of a select_questions call
MaxQuestions == 3

\* the QuestionBank rows of the model, by id (topics: the parsed JSON list)
QuestionRows ==
    <<[question_type |-> "open", difficulty |-> None, topics |-> <<"python">>],
      [question_type |-> "open", difficulty |-> None, topics |-> <<"SQL">>],
      [question_type |-> "open", difficulty |-> None, topics |-> <<"python">>],
      [question_type |-> "open", difficulty |-> None, topics |-> <<"graphs">>],
      [question_type |-> "open", difficulty |-> None, topics |-> <<>>],
      [question_type |-> "open", difficulty |-> None, topics |-> <<"python", "nosql">>],
      [question_type |-> "code", difficulty |-> Some("Easy"), topics |-> <<"python">>],
      [question_type |-> "code", difficulty |-> Some("Medium"), topics |-> <<"algorithms">>],
      [question_type |-> "code", difficulty |-> None, topics |-> <<"python">>]>>

\* the elements of a list, as a set
Range(seq) == {seq[k] : k \in 1..Len(seq)}

\* set(json.loads(q.topics or "[]"))
TopicSet(id) == Range(QuestionRows[id].topics)

\* topic.lower() on the topic names of the model
TopicLower(topic) == IF topic = "SQL" THEN "sql" ELSE topic

\* a in b for two topic names of the model (substring test)
IsSubstring(a, b) == a = b \/ (a = "sql" /\ b = "nosql")

\* compute_jaccard_similarity with a bug: divides by the size of set1
JaccardOverFirst(set1, set2) ==
    IF Cardinality(set1 \cup set2) > 0 /\ Cardinality(set1) > 0
    THEN <<Cardinality(set1 \cap set2), Cardinality(set1)>>
    ELSE <<0, 1>>

\* compute_jaccard_similarity: intersection / union, 0.0 for an empty union
compute_jaccard_similarity(set1, set2) ==
    IF Cardinality(set1 \cup set2) > 0
    THEN <<Cardinality(set1 \cap set2), Cardinality(set1 \cup set2)>>
    ELSE <<0, 1>>

\* quotient > tenths / 10
Exceeds(quotient, tenths) == 10 * quotient[1] > tenths * quotient[2]

\* what one topic of a question adds to the score, in twentieths: the whole
\* weight of an equal key, else half the weight of the first key (in dict
\* order) that contains the topic or is contained in it, else nothing
RECURSIVE PartialMatch(_, _, _)
PartialMatch(topic_lower, topic_weights, k) ==
    IF k > Len(topic_weights) THEN 0
    ELSE IF \/ IsSubstring(topic_lower, topic_weights[k].name)
            \/ IsSubstring(topic_weights[k].name, topic_lower)
         THEN topic_weights[k].weight
         ELSE PartialMatch(topic_lower, topic_weights, k + 1)

TopicScore(topic, topic_weights) ==
    LET topic_lower == TopicLower(topic)
        exact == {k \in 1..Len(topic_weights) : topic_weights[k].name = topic_lower}
    IN  IF exact # {}
        THEN 2 * topic_weights[CHOOSE k \in exact : TRUE].weight
        ELSE PartialMatch(topic_lower, topic_weights, 1)

RECURSIVE SumTopicScores(_, _, _)
SumTopicScores(topics, topic_weights, k) ==
    IF k > Len(topics) THEN 0
    ELSE TopicScore(topics[k], topic_weights)
             + SumTopicScores(topics, topic_weights, k + 1)

\* compute_match_score, as a quotient: 0.5 without topics, else the summed
\* topic scores over the number of topics (weights are in tenths)
compute_match_score(id, topic_weights) ==
    LET question_topics == QuestionRows[id].topics
    IN  IF question_topics = <<>> THEN <<1, 2>>
        ELSE <<SumTopicScores(question_topics, topic_weights, 1),
               20 * Len(question_topics)>>

\* score a > score b
ScoreAbove(a, b) == a[1] * b[2] > b[1] * a[2]

\* a set of ids as the list a query without ORDER BY returns: primary-key order
RECURSIVE AscendingList(_)
AscendingList(ids) ==
    IF ids = {} THEN <<>>
    ELSE LET least == CHOOSE x \in ids : \A y \in ids : x <= y
         IN  <<least>> \o AscendingList(ids \ {least})

\* the candidates query: the rows of the type, and of the difficulty if a
\* filter is given
Candidates(rows, question_type, difficulty_filter) ==
    AscendingList({id \in rows :
        /\ QuestionRows[id].question_type = question_type
        /\ difficulty_filter # None
               => QuestionRows[id].difficulty = difficulty_filter})

\* get_recent_question_ids with a bug: no LIMIT on the sessions
get_all_question_ids(sessions, limit) ==
    UNION {sessions[k].asked : k \in 1..Len(sessions)}

\* get_recent_question_ids: the question ids of the turns of the `limit`
\* most recently started sessions
get_recent_question_ids(sessions, limit) ==
    UNION {sessions[k].asked :
               k \in {j \in 1..Len(sessions) : j > Len(sessions) - limit}}

\* lines 104-116: drop recent and excluded ids; if nothing is left, take
\* all candidates
FilterCandidates(candidates, sessions, exclude_question_ids) ==
    LET recent_ids == get_recent_question_ids(sessions, MAX_RECENT_SESSIONS)
                          \cup exclude_question_ids
        filtered_candidates == SelectSeq(candidates, LAMBDA id : id \notin recent_ids)
    IN  IF filtered_candidates = <<>> THEN candidates ELSE filtered_candidates

\* list.sort(key=score, reverse=True): descending, equal scores keep their order
RECURSIVE SortByScore(_, _)
SortByScore(list, topic_weights) ==
    IF list = <<>> THEN <<>>
    ELSE LET Score(k) == compute_match_score(list[k], topic_weights)
             first == CHOOSE k \in 1..Len(list) :
                          /\ \A m \in 1..Len(list) : ~ScoreAbove(Score(m), Score(k))
                          /\ \A m \in 1..(k - 1) : ScoreAbove(Score(k), Score(m))
         IN  <<list[first]>>
                 \o SortByScore(SubSeq(list, 1, first - 1)
                                    \o SubSeq(list, first + 1, Len(list)),
                                topic_weights)

\* min(a, b)
Min(a, b) == IF a < b THEN a ELSE b

\* a select_questions call that has not run yet
SelectCall(question_type, num_questions, exclude_question_ids, difficulty_filter, topic_weights) ==
    [pc |-> "called",
     question_type |-> question_type,
     num_questions |-> num_questions,
     exclude_question_ids |-> exclude_question_ids,
     difficulty_filter |-> difficulty_filter,
     topic_weights |-> topic_weights,
     pool |-> <<>>,
     top_candidates |-> <<>>,
     selected |-> <<>>,
     used_ids |-> {},
     iterations |-> 0,
     result |-> None]

\* lines 92-133: query, filter, score, sort, cut to the top 3 * num_questions
SelectStart(sel, rows, sessions) ==
    LET candidates == Candidates(rows, sel.question_type, sel.difficulty_filter)
        scored_questions ==
            SortByScore(FilterCandidates(candidates, sessions,
                                         sel.exclude_question_ids),
                        sel.topic_weights)
        top_k == Min(sel.num_questions * 3, Len(scored_questions))
    IN  IF candidates = <<>>
        THEN [sel EXCEPT !.pc = "returned", !.result = Some(<<>>)]
        ELSE [sel EXCEPT !.pc = "drawing",
                         !.pool = SubSeq(scored_questions, 1, top_k),
                         !.top_candidates = SubSeq(scored_questions, 1, top_k)]

\* remaining: the top candidates not yet used
Remaining(sel) == SelectSeq(sel.top_candidates, LAMBDA id : id \notin sel.used_ids)

\* the loop condition of line 136 and the break of lines 139-140
LoopRuns(sel) ==
    /\ Len(sel.selected) < sel.num_questions
    /\ sel.top_candidates # <<>>
    /\ Remaining(sel) # <<>>

\* what random.choices(remaining, weights) may return: any entry whose
\* weight score^2 is positive
Drawable(sel) ==
    {id \in Range(Remaining(sel)) : compute_match_score(id, sel.topic_weights)[1] > 0}

\* DrawStep with a bug: a discarded draw stays in the sampling pool
DrawStepKeepsDiscarded(sel, chosen) ==
    LET selected_topics == UNION {TopicSet(id) : id \in Range(sel.selected)}
        overlap == compute_jaccard_similarity(selected_topics, TopicSet(chosen))
    IN  IF /\ Len(sel.selected) + 1 > 1
           /\ Exceeds(overlap, 8)
           /\ Len(Remaining(sel)) > 1
        THEN [sel EXCEPT !.iterations = @ + 1]
        ELSE [sel EXCEPT !.selected = Append(@, chosen),
                         !.used_ids = @ \cup {chosen},
                         !.iterations = @ + 1]

\* lines 147-164: append the draw; from the second question on, take it back
\* and drop it from the pool when its topics overlap the topics selected
\* before by more than 0.8 and another candidate remains
DrawStep(sel, chosen) ==
    LET selected_topics == UNION {TopicSet(id) : id \in Range(sel.selected)}
        overlap == compute_jaccard_similarity(selected_topics, TopicSet(chosen))
    IN  IF /\ Len(sel.selected) + 1 > 1
           /\ Exceeds(overlap, 8)
           /\ Len(Remaining(sel)) > 1
        THEN [sel EXCEPT !.top_candidates = SelectSeq(@, LAMBDA id : id # chosen),
                         !.iterations = @ + 1]
        ELSE [sel EXCEPT !.selected = Append(@, chosen),
                         !.used_ids = @ \cup {chosen},
                         !.iterations = @ + 1]

\* line 166: selected[:num_questions]
SelectReturn(sel) ==
    [sel EXCEPT !.pc = "returned",
                !.result = Some(SubSeq(sel.selected, 1,
                                       Min(sel.num_questions, Len(sel.selected))))]

\* select_questions up to the draw loop
SelectCandidates ==
    /\ selection # None
    /\ selection.pc = "called"
    /\ selection' = SelectStart(selection, question_rows, history)
    /\ UNCHANGED <<turn_vars, question_rows, history, beyond_select_vars>>

\* one iteration of the draw loop; chosen is what random.choices returns
Draw(chosen) ==
    /\ selection # None
    /\ selection.pc = "drawing"
    /\ LoopRuns(selection)
    /\ chosen \in Drawable(selection)
    /\ selection' = DrawStep(selection, chosen)
    /\ UNCHANGED <<turn_vars, question_rows, history, beyond_select_vars>>

\* random.choices raises ValueError when all the weights are zero
DrawRaises ==
    /\ selection # None
    /\ selection.pc = "drawing"
    /\ LoopRuns(selection)
    /\ Drawable(selection) = {}
    /\ selection' = [selection EXCEPT !.pc = "raised"]
    /\ UNCHANGED <<turn_vars, question_rows, history, beyond_select_vars>>

\* the loop ends and select_questions returns
Return ==
    /\ selection # None
    /\ selection.pc = "drawing"
    /\ ~LoopRuns(selection)
    /\ selection' = SelectReturn(selection)
    /\ UNCHANGED <<turn_vars, question_rows, history, beyond_select_vars>>

\* no interview session is being run
TurnsIdle ==
    /\ conversation_state_json = None
    /\ ended_at = None
    /\ question_start_time = None
    /\ language = None
    /\ plan_items = <<>>
    /\ question_bank = {}
    /\ interview_turns = <<>>
    /\ clock = 0
    /\ response = None
    /\ raised = FALSE
    /\ loaded = None
    /\ run_result = None
    /\ refine_calls = [i \in 0..MaxPlan |-> 0]
    /\ inflight = <<>>

\* the QuestionBank tables of the model
QuestionTables == {1..9, (1..6) \cup {9}, 1..6, {1, 3}, {}}

\* an earlier session whose turns asked the questions `asked`
PriorSession(asked) == [asked |-> asked, plan |-> None]

\* the histories of the model, oldest session first; in the third the
\* oldest session is the fourth most recent
Histories ==
    {<<>>,
     <<PriorSession({1})>>,
     <<PriorSession({1}), PriorSession(2..6), PriorSession({}), PriorSession({})>>,
     <<PriorSession(1..6)>>,
     <<PriorSession({7})>>}

\* role-profile topic weights, in tenths, in dict order
TopicWeights ==
    {<<[name |-> "python", weight |-> 8], [name |-> "sql", weight |-> 6]>>,
     <<[name |-> "rust", weight |-> 7]>>}

\* the select_questions calls of the model
SelectCalls ==
    {SelectCall(question_type, num_questions, exclude_question_ids,
                difficulty_filter, topic_weights) :
        question_type \in {"open", "code"},
        num_questions \in 1..MaxQuestions,
        exclude_question_ids \in {{}, {2}, {7, 8}},
        difficulty_filter \in {None, Some("Easy"), Some("Medium"), Some("Hard")},
        topic_weights \in TopicWeights}

InitSelect ==
    /\ TurnsIdle
    /\ BeyondSelectIdle
    /\ question_rows \in QuestionTables
    /\ history \in Histories
    /\ selection \in SelectCalls

NextSelect ==
    \/ SelectCandidates
    \/ \E chosen \in 1..Len(QuestionRows) : Draw(chosen)
    \/ DrawRaises
    \/ Return

SpecSelect == InitSelect /\ [][NextSelect]_vars

----------------------------------------------------------------------------
(* Properties of the question selector *)

\* the select_questions call has returned
Returned == selection # None /\ selection.pc = "returned"

\* the ids it returned
Result == Range(selection.result[1])

\* the ids asked in the user's last MAX_RECENT_SESSIONS sessions, together
\* with the explicit exclusion set
Barred ==
    selection.exclude_question_ids
        \cup {id \in 1..Len(QuestionRows) :
                \E k \in 1..Len(history) :
                    /\ Len(history) - k < MAX_RECENT_SESSIONS
                    /\ id \in history[k].asked}

\* the rows of the requested type (and difficulty, if filtered)
Eligible ==
    {id \in question_rows :
        /\ QuestionRows[id].question_type = selection.question_type
        /\ selection.difficulty_filter # None
               => QuestionRows[id].difficulty = selection.difficulty_filter}

\* C15: select_questions returns no question that is excluded or was asked
\* in the last MAX_RECENT_SESSIONS sessions, unless every candidate of the
\* requested type (and difficulty) is; then, and only then, it selects from
\* the unfiltered candidates.
C15_RecentQuestionsAreAvoided ==
    Returned =>
        /\ Result \subseteq Eligible
        /\ ~(Eligible \subseteq Barred) => Result \cap Barred = {}
        /\ Range(selection.pool) \subseteq
               (IF Eligible \subseteq Barred THEN Eligible ELSE Eligible \ Barred)

\* C15 witness: the only Easy code question was asked in the last session,
\* and is selected again
C15_Witness ==
    /\ Returned
    /\ selection.difficulty_filter = Some("Easy")
    /\ Eligible = {7}
    /\ 7 \in Barred
    /\ Result = {7}

\* the topic sets of two questions have Jaccard similarity > 0.8
TooSimilar(a, b) ==
    Exceeds(compute_jaccard_similarity(TopicSet(a), TopicSet(b)), 8)

\* the questions of the sampling pool that were not returned and are not
\* too similar to any returned question
Alternatives ==
    {id \in Range(selection.pool) \ Result : \A q \in Result : ~TooSimilar(id, q)}

\* C16: no two questions returned by one select_questions call have topic
\* sets with Jaccard similarity > 0.8 when at least 2 alternatives with lower
\* overlap exist in the sampling pool.
C16_BatchIsDiverse ==
    (Returned /\ Cardinality(Alternatives) >= 2) =>
        \A a, b \in Result : a # b => ~TooSimilar(a, b)

----------------------------------------------------------------------------
(* compute_jaccard_similarity on its own *)

\* the elements the argument sets are made of
TopicNames == {"python", "sql", "nosql", "graphs"}

\* no question selection is running
SelectIdle ==
    /\ question_rows = {}
    /\ history = <<>>
    /\ selection = None

\* any two sets as arguments
InitJaccard ==
    /\ TurnsIdle
    /\ SelectIdle
    /\ building = None
    /\ store = None
    /\ snapshots = <<>>
    /\ evaluation \in {[fn |-> "compute_jaccard_similarity",
                        set1 |-> set1, set2 |-> set2, result |-> None] :
                           set1 \in SUBSET TopicNames, set2 \in SUBSET TopicNames}

\* the call
ComputeJaccard ==
    /\ evaluation # None
    /\ evaluation.fn = "compute_jaccard_similarity"
    /\ evaluation.result = None
    /\ evaluation' = [evaluation EXCEPT !.result =
                          Some(compute_jaccard_similarity(evaluation.set1,
                                                          evaluation.set2))]
    /\ UNCHANGED <<turn_vars, question_rows, history, selection, building,
                   store, snapshots>>

SpecJaccard == InitJaccard /\ [][ComputeJaccard]_vars

\* compute_jaccard_similarity has returned
JaccardComputed ==
    /\ evaluation # None
    /\ evaluation.fn = "compute_jaccard_similarity"
    /\ evaluation.result # None

\* C17: compute_jaccard_similarity(A, B) is |A \cap B| / |A \cup B|, lies in
\* [0, 1], is 1 when A = B is not empty, is 0 when both sets are empty, and
\* does not depend on the order of its arguments.
C17_JaccardProperties ==
    JaccardComputed =>
        LET A == evaluation.set1
            B == evaluation.set2
            value == evaluation.result[1]
        IN  /\ value[2] > 0
            /\ 0 <= value[1] /\ value[1] <= value[2]
            /\ A \cup B # {} =>
                   value[1] * Cardinality(A \cup B)
                       = Cardinality(A \cap B) * value[2]
            /\ (A = B /\ A # {}) => value[1] = value[2]
            /\ (A = {} /\ B = {}) => value[1] = 0
            /\ LET swapped == compute_jaccard_similarity(B, A)
               IN  value[1] * swapped[2] = swapped[1] * value[2]

\* C17 witness: two different overlapping sets, similarity 1/3
C17_Witness ==
    /\ JaccardComputed
    /\ evaluation.set1 = {"python", "sql"}
    /\ evaluation.set2 = {"sql", "graphs"}
    /\ evaluation.result = Some(<<1, 3>>)

----------------------------------------------------------------------------
(* Part 3: the plan builder, build_interview_plan *)

\* largest num_open of a build_interview_plan call
MaxOpen == 2

\* largest num_code of a build_interview_plan call
MaxCode == 2

\* the draw loop run to its end: every way select_questions can finish from
\* loop state sel (returned or raised)
RECURSIVE RunDraws(_)
RunDraws(sel) ==
    IF ~LoopRuns(sel) THEN {SelectReturn(sel)}
    ELSE IF Drawable(sel) = {} THEN {[sel EXCEPT !.pc = "raised"]}
    ELSE UNION {RunDraws(DrawStep(sel, chosen)) : chosen \in Drawable(sel)}

\* select_questions as one call: every way it can finish
select_questions(call, rows, sessions) ==
    LET started == SelectStart(call, rows, sessions)
    IN  IF started.pc = "returned" THEN {started} ELSE RunDraws(started)

\* role_profile["topics"] values of the model: no topics, a dict item and a
\* string item, one string item
RoleProfiles ==
    {<<>>,
     <<[kind |-> "dict", name |-> "Python", weight |-> 8],
       [kind |-> "str", name |-> "algorithms"]>>,
     <<[kind |-> "str", name |-> "python"]>>}

\* str.lower() on the names of the role profiles
NameLower(name) == IF name = "Python" THEN "python" ELSE name

\* lines 181-197: the topic weights (tenths) of a role profile: the weight of
\* a dict item, 0.6 for a string item, three default topics for no topics
NormalizeWeights(topics_list) ==
    IF topics_list = <<>>
    THEN <<[name |-> "programming", weight |-> 8],
           [name |-> "problem solving", weight |-> 7],
           [name |-> "algorithms", weight |-> 6]>>
    ELSE [k \in 1..Len(topics_list) |->
              [name |-> NameLower(topics_list[k].name),
               weight |-> IF topics_list[k].kind = "dict"
                          THEN topics_list[k].weight ELSE 6]]

\* difficulties = ["Easy", "Medium", "Hard"]
difficulties == <<"Easy", "Medium", "Hard">>

\* a build_interview_plan call that has not run yet.  tier: how many tier
\* draws the current slot has had; attempts: every draw made for a code
\* slot, in order
BuildCall(topics_list, num_open, num_code) ==
    [pc |-> "called",
     topic_weights |-> NormalizeWeights(topics_list),
     num_open |-> num_open,
     num_code |-> num_code,
     plan_items |-> <<>>,
     slot_idx |-> 0,
     tier |-> 0,
     untiered |-> FALSE,
     candidates |-> <<>>,
     attempts |-> <<>>]

\* lines 205-216: the plan items of the open batch
OpenItems(questions) ==
    [idx \in 1..Len(questions) |->
        [section |-> "open", slot_index |-> idx - 1,
         question_id |-> questions[idx], question_type |-> "open",
         candidates |-> <<>>]]

\* the candidate entry of a code question: "difficulty" is
\* qs[0].difficulty or "Medium"
CandidateEntry(id) ==
    [question_id |-> id,
     difficulty |-> IF QuestionRows[id].difficulty = None THEN "Medium"
                    ELSE QuestionRows[id].difficulty[1]]

\* CodeItem with a bug: the last candidate found is the primary
CodeItemLastPrimary(slot_idx, candidates) ==
    [section |-> "code", slot_index |-> slot_idx,
     question_id |-> candidates[Len(candidates)].question_id,
     question_type |-> "code",
     difficulty |-> candidates[Len(candidates)].difficulty,
     candidates |-> candidates]

\* lines 256-267: the plan item of a code slot
CodeItem(slot_idx, candidates) ==
    [section |-> "code", slot_index |-> slot_idx,
     question_id |-> candidates[1].question_id, question_type |-> "code",
     difficulty |-> candidates[1].difficulty,
     candidates |-> candidates]

\* the builder's state after a draw for the current code slot: qs is the
\* list select_questions returned; a found question joins the candidates
AfterDraw(build, difficulty, qs) ==
    [build EXCEPT
       !.candidates = IF qs = <<>> THEN @ ELSE Append(@, CandidateEntry(qs[1])),
       !.attempts = Append(@, [slot |-> build.slot_idx,
                               difficulty |-> difficulty,
                               found |-> IF qs = <<>> THEN None ELSE Some(qs[1])])]

\* lines 199-216: the open batch; outcome is how select_questions finishes
BuildOpenSection ==
    /\ building # None
    /\ building.pc = "called"
    /\ \E outcome \in select_questions(
                            SelectCall("open", building.num_open, {}, None,
                                       building.topic_weights),
                            question_rows, history) :
           building' = IF outcome.pc = "raised"
                       THEN [building EXCEPT !.pc = "raised"]
                       ELSE [building EXCEPT
                               !.pc = "slots",
                               !.plan_items = OpenItems(outcome.result[1])]
    /\ UNCHANGED <<turn_vars, question_rows, history, selection, evaluation,
                   store, snapshots>>

\* lines 227-239: the draw of the next difficulty tier for the current slot
DrawTier ==
    /\ building # None
    /\ building.pc = "slots"
    /\ building.slot_idx < building.num_code
    /\ building.tier < Len(difficulties)
    /\ \E outcome \in select_questions(
                            SelectCall("code", 1, {},
                                       Some(difficulties[building.tier + 1]),
                                       building.topic_weights),
                            question_rows, history) :
           building' =
               IF outcome.pc = "raised"
               THEN [building EXCEPT !.pc = "raised"]
               ELSE [AfterDraw(building, Some(difficulties[building.tier + 1]),
                               outcome.result[1])
                        EXCEPT !.tier = @ + 1]
    /\ UNCHANGED <<turn_vars, question_rows, history, selection, evaluation,
                   store, snapshots>>

\* lines 241-253: no tier gave a candidate: one draw without a filter
DrawUntiered ==
    /\ building # None
    /\ building.pc = "slots"
    /\ building.slot_idx < building.num_code
    /\ building.tier = Len(difficulties)
    /\ building.candidates = <<>>
    /\ ~building.untiered
    /\ \E outcome \in select_questions(
                            SelectCall("code", 1, {}, None,
                                       building.topic_weights),
                            question_rows, history) :
           building' =
               IF outcome.pc = "raised"
               THEN [building EXCEPT !.pc = "raised"]
               ELSE [AfterDraw(building, None, outcome.result[1])
                        EXCEPT !.untiered = TRUE]
    /\ UNCHANGED <<turn_vars, question_rows, history, selection, evaluation,
                   store, snapshots>>

\* lines 255-267: the slot's plan item, if it has a candidate; next slot
EmitSlot ==
    /\ building # None
    /\ building.pc = "slots"
    /\ building.slot_idx < building.num_code
    /\ building.tier = Len(difficulties)
    /\ building.candidates # <<>> \/ building.untiered
    /\ building' =
           [building EXCEPT
              !.plan_items = IF building.candidates # <<>>
                             THEN Append(@, CodeItem(building.slot_idx,
                                                     building.candidates))
                             ELSE @,
              !.slot_idx = @ + 1,
              !.tier = 0,
              !.untiered = FALSE,
              !.candidates = <<>>]
    /\ UNCHANGED <<turn_vars, question_rows, history, selection, evaluation,
                   store, snapshots>>

\* line 269: return plan_items
ReturnPlan ==
    /\ building # None
    /\ building.pc = "slots"
    /\ building.slot_idx >= building.num_code
    /\ building' = [building EXCEPT !.pc = "returned"]
    /\ UNCHANGED <<turn_vars, question_rows, history, selection, evaluation,
                   store, snapshots>>

\* the histories of the builder's model
BuildHistories == {<<>>, <<PriorSession({7})>>}

InitBuild ==
    /\ TurnsIdle
    /\ question_rows \in QuestionTables
    /\ history \in BuildHistories
    /\ selection = None
    /\ evaluation = None
    /\ store = None
    /\ snapshots = <<>>
    /\ building \in {BuildCall(topics_list, num_open, num_code) :
                         topics_list \in RoleProfiles,
                         num_open \in 0..MaxOpen,
                         num_code \in 0..MaxCode}

NextBuild ==
    \/ BuildOpenSection
    \/ DrawTier
    \/ DrawUntiered
    \/ EmitSlot
    \/ ReturnPlan

SpecBuild == InitBuild /\ [][NextBuild]_vars

----------------------------------------------------------------------------
(* Properties of the plan builder *)

\* the draws made for code slot s, in order
SlotAttempts(s) == SelectSeq(building.attempts, LAMBDA a : a.slot = s)

\* the questions the tier draws of code slot s found, in order
TierFinds(s) ==
    LET found == SelectSeq(SlotAttempts(s),
                           LAMBDA a : a.difficulty # None /\ a.found # None)
    IN  [k \in 1..Len(found) |-> found[k].found[1]]

\* the plan items emitted for code slot s
SlotItems(s) ==
    SelectSeq(building.plan_items,
              LAMBDA item : item.section = "code" /\ item.slot_index = s)

\* the question ids of a candidates list
CandidateIds(candidates) ==
    [k \in 1..Len(candidates) |-> candidates[k].question_id]

\* the plan item of slot s is the single item `ids` gives: these candidates,
\* the first one primary
SlotItemIs(s, ids) ==
    /\ Len(SlotItems(s)) = 1
    /\ CandidateIds(SlotItems(s)[1].candidates) = ids
    /\ SlotItems(s)[1].question_id = ids[1]

\* C18: for each code slot build_interview_plan draws once per tier, in the
\* order Easy, Medium, Hard, and keeps every question found as the item's
\* candidates (at most 3), the first one found being the primary
\* question_id; if no tier gives a question it draws once more without a
\* tier; and if that gives nothing either, the slot gets no plan item.
C18_CodeSlotCandidates ==
    building # None =>
      \A s \in 0..(building.num_code - 1) :
        LET attempts == SlotAttempts(s)
            tiers == [k \in 1..Len(attempts) |-> attempts[k].difficulty]
            finished == building.slot_idx > s
        IN  /\ \E n \in 0..4 :
                   tiers = SubSeq(<<Some("Easy"), Some("Medium"), Some("Hard"), None>>,
                                  1, n)
            /\ Len(TierFinds(s)) <= 3
            /\ Len(attempts) = 4 => TierFinds(s) = <<>>
            /\ finished =>
                   IF TierFinds(s) # <<>>
                   THEN Len(attempts) = 3 /\ SlotItemIs(s, TierFinds(s))
                   ELSE /\ Len(attempts) = 4
                        /\ IF attempts[4].found = None THEN SlotItems(s) = <<>>
                           ELSE SlotItemIs(s, <<attempts[4].found[1]>>)
            /\ ~finished => SlotItems(s) = <<>>

\* C18 witness: a returned plan whose second code slot has the Easy and the
\* Medium question as candidates, the Easy one primary; no Hard one exists
C18_Witness ==
    /\ building # None
    /\ building.pc = "returned"
    /\ building.num_code = 2
    /\ TierFinds(1) = <<7, 8>>
    /\ Len(SlotAttempts(1)) = 3
    /\ SlotItems(1)[1].question_id = 7
    /\ SlotItems(1)[1].candidates
           = <<[question_id |-> 7, difficulty |-> "Easy"],
               [question_id |-> 8, difficulty |-> "Medium"]>>

----------------------------------------------------------------------------
(* Part 4: check_plan_diversity *)

\* config.PLAN_SIMILARITY_THRESHOLD, in tenths
PLAN_SIMILARITY_THRESHOLD == 7

\* InterviewSession.plan is None or a text: the empty string, a text that
\* is not JSON, JSON that is not a list of objects, or a list of objects
EmptyText == [kind |-> "empty", items |-> <<>>]

NotJson == [kind |-> "invalid", items |-> <<>>]

NotAList == [kind |-> "scalar", items |-> <<>>]

\* json.dumps of a plan: a list of plan-item dicts
PlanText(items) == [kind |-> "list", items |-> items]

\* a plan item with a question id, and one without
Item(id) == [question_id |-> id]

NoIdItem == [section |-> "open"]

\* the plan whose items carry the ids first..last
PlanOf(first, last) == [k \in 1..(last - first + 1) |-> Item(first + k - 1)]

\* {item.get("question_id") for item in plan if item.get("question_id")}
QuestionIds(plan) ==
    {plan[k]["question_id"] : k \in {j \in 1..Len(plan) : "question_id" \in DOMAIN plan[j]}}

\* quotient < tenths / 10
Below(quotient, tenths) == 10 * quotient[1] < tenths * quotient[2]

\* MostRecent with a bug: ascending order
LeastRecent(sessions) == IF sessions = <<>> THEN None ELSE Some(sessions[1])

\* .order_by(started_at.desc()).limit(1).first() on the user's sessions for
\* the job (kept oldest first)
MostRecent(sessions) ==
    IF sessions = <<>> THEN None ELSE Some(sessions[Len(sessions)])

\* check_plan_diversity
check_plan_diversity(sessions, new_plan) ==
    LET prev_session == MostRecent(sessions)
    IN  IF prev_session = None THEN TRUE
        ELSE IF prev_session[1].plan = None
                \/ prev_session[1].plan[1].kind = "empty" THEN TRUE
        ELSE IF prev_session[1].plan[1].kind # "list" THEN TRUE
        ELSE Below(compute_jaccard_similarity(
                       QuestionIds(prev_session[1].plan[1].items),
                       QuestionIds(new_plan)),
                   PLAN_SIMILARITY_THRESHOLD)

\* an earlier session with this plan column
PlannedSession(plan) == [asked |-> {}, plan |-> plan]

\* the plan columns of the model
PlanColumns ==
    {None, Some(EmptyText), Some(NotJson), Some(NotAList),
     Some(PlanText(<<>>)),
     Some(PlanText(PlanOf(1, 3))),
     Some(PlanText(<<Item(4), NoIdItem>>)),
     Some(PlanText(PlanOf(1, 10)))}

\* the new plans of the model
NewPlans ==
    {<<>>, PlanOf(1, 3), PlanOf(1, 7), PlanOf(1, 6), <<Item(4)>>,
     <<Item(1), Item(2), NoIdItem>>}

InitDiversity ==
    /\ TurnsIdle
    /\ question_rows = {}
    /\ selection = None
    /\ building = None
    /\ store = None
    /\ snapshots = <<>>
    /\ history \in {<<>>}
           \cup {<<PlannedSession(p)>> : p \in PlanColumns}
           \cup {<<PlannedSession(p), PlannedSession(q)>> : p, q \in PlanColumns}
    /\ evaluation \in {[fn |-> "check_plan_diversity", new_plan |-> new_plan,
                        result |-> None] : new_plan \in NewPlans}

\* the call
CheckDiversity ==
    /\ evaluation # None
    /\ evaluation.fn = "check_plan_diversity"
    /\ evaluation.result = None
    /\ evaluation' = [evaluation EXCEPT !.result =
                          Some(check_plan_diversity(history, evaluation.new_plan))]
    /\ UNCHANGED <<turn_vars, question_rows, history, selection, building,
                   store, snapshots>>

SpecDiversity == InitDiversity /\ [][CheckDiversity]_vars

\* check_plan_diversity has returned
DiversityChecked ==
    /\ evaluation # None
    /\ evaluation.fn = "check_plan_diversity"
    /\ evaluation.result # None

\* the plan column of the most recently started earlier session holds a list
\* of plan items
PriorPlanParses ==
    /\ history # <<>>
    /\ history[Len(history)].plan # None
    /\ history[Len(history)].plan[1].kind = "list"

\* the question ids of that plan
PriorIds == QuestionIds(history[Len(history)].plan[1].items)

\* C19: check_plan_diversity returns false exactly when the most recent
\* earlier plan of the user for the job exists, parses, and the Jaccard
\* similarity of its question ids and the new plan's question ids is
\* >= PLAN_SIMILARITY_THRESHOLD; without an earlier session, with an empty
\* or an unparsable earlier plan it returns true.
C19_DiversityVerdict ==
    DiversityChecked =>
        LET new_ids == QuestionIds(evaluation.new_plan)
        IN  (evaluation.result = Some(FALSE))
              <=> (/\ PriorPlanParses
                   /\ PriorIds \cup new_ids # {}
                   /\ 10 * Cardinality(PriorIds \cap new_ids)
                          >= PLAN_SIMILARITY_THRESHOLD
                                 * Cardinality(PriorIds \cup new_ids))

\* C19 witness: the similarity is exactly 0.7 (7 of 10 ids shared) with the
\* most recent plan, and 0 with the older one; the verdict is false
C19_Witness ==
    /\ DiversityChecked
    /\ Len(history) = 2
    /\ history[1].plan = Some(PlanText(<<Item(4), NoIdItem>>))
    /\ PriorPlanParses
    /\ PriorIds = 1..10
    /\ QuestionIds(evaluation.new_plan) = 1..7
    /\ evaluation.result = Some(FALSE)

(***************************************************************************)
(* Part 5: the readiness snapshot (backend/services/readiness.py).         *)
(*                                                                         *)
(* Scores are floats in the source.  Here a score is an exact fraction     *)
(* <<numerator, denominator>> of score points; match_score is kept in      *)
(* hundredths, a turn's overall in tenths and the weights in tenths.       *)
(* Dates are counted in tenths of a day.  store holds the rows of one      *)
(* user:                                                                   *)
(*   now          the time utcnow() reads                                  *)
(*   job_spec_id  the job_spec_id argument, None or Some(id)               *)
(*   analyses     cv_analysis_results rows, oldest created_at first        *)
(*   sessions     interview_sessions rows, oldest created_at first, each   *)
(*                with its interview_turns in turn_index order             *)
(***************************************************************************)
MaxSessions == 3

(* timedelta(days=7) *)
Week == 70

MaxSnapshots == 2

Max(a, b) == IF a > b THEN a ELSE b

Whole(n) == <<n, 1>>

SameScore(a, b) == a[1] * b[2] = b[1] * a[2]

(* rows of a table that the query's job_spec_id filter keeps *)
RECURSIVE ForJob(_, _)
ForJob(rows, job_spec_id) ==
    IF rows = <<>>
    THEN <<>>
    ELSE IF job_spec_id = None \/ Head(rows).job_spec_id = job_spec_id[1]
         THEN <<Head(rows)>> \o ForJob(Tail(rows), job_spec_id)
         ELSE ForJob(Tail(rows), job_spec_id)

_compute_cv_score(db, job_spec_id) ==
    IF job_spec_id = None
    THEN Whole(0)
    ELSE LET matching == ForJob(db.analyses, job_spec_id)
         IN  IF matching = <<>>
             THEN Whole(0)
             ELSE LET latest_analysis == matching[Len(matching)]
                      base_score == latest_analysis.match_score
                      coverage_bonus ==
                          Min(10, latest_analysis.strengths * 2
                                      - latest_analysis.gaps * 1)
                  IN  Whole(Max(0, Min(100, base_score + coverage_bonus)))

TurnOverall(turn) == IF turn.overall = None THEN 5 ELSE turn.overall[1]

TurnWeight(turn) == IF turn.code THEN 6 ELSE 4

RECURSIVE SumWeights(_)
SumWeights(turns) ==
    IF turns = <<>> THEN 0 ELSE TurnWeight(Head(turns)) + SumWeights(Tail(turns))

RECURSIVE SumWeighted(_)
SumWeighted(turns) ==
    IF turns = <<>>
    THEN 0
    ELSE TurnOverall(Head(turns)) * TurnWeight(Head(turns))
             + SumWeighted(Tail(turns))

RECURSIVE SumOverall(_)
SumOverall(turns) ==
    IF turns = <<>> THEN 0 ELSE TurnOverall(Head(turns)) + SumOverall(Tail(turns))

RECURSIVE WithTurns(_)
WithTurns(sessions) ==
    IF sessions = <<>>
    THEN <<>>
    ELSE IF Head(sessions).turns = <<>>
         THEN WithTurns(Tail(sessions))
         ELSE <<Head(sessions)>> \o WithTurns(Tail(sessions))

InterviewScoreOfLastAnswered(db, job_spec_id) ==
    LET matching == WithTurns(ForJob(db.sessions, job_spec_id))
    IN  IF matching = <<>>
        THEN Whole(0)
        ELSE LET turns == matching[Len(matching)].turns
             IN  <<SumWeighted(turns) * 10, SumWeights(turns)>>

_compute_interview_score(db, job_spec_id) ==
    LET matching == ForJob(db.sessions, job_spec_id)
    IN  IF matching = <<>>
        THEN Whole(0)
        ELSE LET turns == matching[Len(matching)].turns
                 total_weight == SumWeights(turns)
             IN  IF turns = <<>>
                 THEN Whole(0)
                 ELSE IF total_weight = 0
                      THEN <<SumOverall(turns) * 10, Len(turns)>>
                      ELSE <<SumWeighted(turns) * 10, total_weight>>

RECURSIVE RecentCount(_, _)
RecentCount(sessions, recent_cutoff) ==
    IF sessions = <<>>
    THEN 0
    ELSE (IF Head(sessions).created_at >= recent_cutoff THEN 1 ELSE 0)
             + RecentCount(Tail(sessions), recent_cutoff)

PracticeScoreAllRecent(db, job_spec_id) ==
    LET session_count == Len(ForJob(db.sessions, job_spec_id))
    IN  IF session_count = 0
        THEN Whole(0)
        ELSE Whole(Min(100, Min(50, session_count * 5)
                                + Min(30, session_count * 10)
                                + (IF session_count >= 2 THEN 5 ELSE 0)))

_compute_practice_score(db, job_spec_id) ==
    LET all_sessions == ForJob(db.sessions, job_spec_id)
        session_count == Len(all_sessions)
        recent_count == RecentCount(all_sessions, db.now - Week)
        trend_bonus == IF session_count >= 2 THEN 5 ELSE 0
        count_score == Min(50, session_count * 5)
        recency_bonus == Min(30, recent_count * 10)
    IN  IF session_count = 0
        THEN Whole(0)
        ELSE Whole(Min(100, count_score + recency_bonus + trend_bonus))

ReadinessPracticeHeavy(cv_score, interview_score, practice_score) ==
    <<(1 * cv_score[1] * interview_score[2] * practice_score[2])
          + (5 * interview_score[1] * cv_score[2] * practice_score[2])
          + (4 * practice_score[1] * cv_score[2] * interview_score[2]),
      10 * cv_score[2] * interview_score[2] * practice_score[2]>>

(* cv_score * 0.4 + interview_score * 0.5 + practice_score * 0.1 *)
ReadinessScore(cv_score, interview_score, practice_score) ==
    <<(4 * cv_score[1] * interview_score[2] * practice_score[2])
          + (5 * interview_score[1] * cv_score[2] * practice_score[2])
          + (1 * practice_score[1] * cv_score[2] * interview_score[2]),
      10 * cv_score[2] * interview_score[2] * practice_score[2]>>

Breakdown(cv_score, interview_score, practice_score) ==
    [cv_score |-> cv_score,
     interview_score |-> interview_score,
     practice_score |-> practice_score,
     weights |-> [cv |-> 4, interview |-> 5, practice |-> 1]]

compute_readiness_snapshot(db, job_spec_id, uuid4) ==
    LET cv_score == _compute_cv_score(db, job_spec_id)
        interview_score == _compute_interview_score(db, job_spec_id)
        practice_score == _compute_practice_score(db, job_spec_id)
    IN  [id |-> uuid4,
         job_spec_id |-> job_spec_id,
         timestamp |-> db.now,
         readiness_score |->
             ReadinessScore(cv_score, interview_score, practice_score),
         cv_score |-> cv_score,
         interview_score |-> interview_score,
         practice_score |-> practice_score,
         breakdown_json |->
             JsonDumps(Breakdown(cv_score, interview_score, practice_score))]

(* one call of compute_readiness_snapshot: the row is added and committed; *)
(* the default id of the row is a fresh uuid4                              *)
ComputeSnapshot ==
    /\ store # None
    /\ Len(snapshots) < MaxSnapshots
    /\ snapshots' =
           Append(snapshots,
                  compute_readiness_snapshot(store[1], store[1].job_spec_id,
                                             Len(snapshots) + 1))
    /\ UNCHANGED <<turn_vars, question_rows, history, selection, building,
                   evaluation, store>>

Today == 300

(* a later time, two days on, at which utcnow() is read again *)
LaterDay == Today + 20

(* the clock moves on between two calls; no stored row changes *)
TimePasses ==
    /\ store # None
    /\ store[1].now < LaterDay
    /\ store' = Some([store[1] EXCEPT !.now = LaterDay])
    /\ UNCHANGED <<turn_vars, question_rows, history, selection, building,
                   evaluation, snapshots>>

Analysis(job_spec_id, match_score, strengths, gaps) ==
    [job_spec_id |-> job_spec_id, match_score |-> match_score,
     strengths |-> strengths, gaps |-> gaps]

AnalysisTables ==
    {<<>>,
     <<Analysis("job", 80, 0, 0)>>,
     <<Analysis("job", 70, 6, 0)>>,
     <<Analysis("job", 50, 0, 3)>>,
     <<Analysis("job", 95, 4, 1)>>,
     <<Analysis("job", 80, 0, 0), Analysis("job", 2, 0, 5)>>,
     <<Analysis("job", 60, 1, 0), Analysis("other", 90, 0, 0)>>}

ScoredTurn(overall, code) == [overall |-> overall, code |-> code]

TurnLists ==
    {<<>>,
     <<ScoredTurn(Some(6), FALSE)>>,
     <<ScoredTurn(Some(8), FALSE), ScoredTurn(Some(4), TRUE)>>,
     <<ScoredTurn(None, TRUE)>>}

(* k-th of n sessions; the last `recent` of them fall in the last 7 days *)
SessionDay(k, n, recent) == IF k > n - recent THEN Today - Week + 5 + k ELSE k

ManySessions == 11

(* a long history of sessions without turns *)
LongHistories ==
    {[k \in 1..n |->
         [job_spec_id |-> "job",
          created_at |-> SessionDay(k, n, recent),
          turns |-> <<>>]] :
        <<n, recent>> \in
            {<<m, r>> \in ((MaxSessions + 1)..ManySessions)
                              \X (0..ManySessions) : r <= m}}

SessionTables ==
    UNION {
        {[k \in 1..n |->
             [job_spec_id |-> IF elsewhere /\ k = n THEN "other" ELSE "job",
              created_at |-> SessionDay(k, n, recent),
              turns |-> turns[k]]] :
            turns \in [1..n -> TurnLists]} :
        <<n, recent, elsewhere>> \in
            {<<m, r, e>> \in (0..MaxSessions) \X (0..MaxSessions) \X BOOLEAN :
                r <= m /\ (e => m >= 1)}}

TurnsAndSelectIdle ==
    /\ TurnsIdle
    /\ SelectIdle
    /\ building = None
    /\ evaluation = None

InitReadiness ==
    /\ TurnsAndSelectIdle
    /\ snapshots = <<>>
    /\ \E job_spec_id \in {None, Some("job")}, analyses \in AnalysisTables,
          sessions \in SessionTables \cup LongHistories :
           store = Some([now |-> Today, job_spec_id |-> job_spec_id,
                         analyses |-> analyses, sessions |-> sessions])

NextReadiness ==
    \/ ComputeSnapshot
    \/ TimePasses

SpecReadiness == InitReadiness /\ [][NextReadiness]_vars

(* C20: in every stored snapshot the readiness score is                    *)
(* 0.4 * cv_score + 0.5 * interview_score + 0.1 * practice_score of that   *)
(* same snapshot, and the persisted breakdown holds exactly the three      *)
(* sub-scores of the snapshot with the weights cv 0.4, interview 0.5 and   *)
(* practice 0.1.                                                           *)
C20_ReadinessIsWeightedSum ==
    \A k \in 1..Len(snapshots) :
        LET snapshot == snapshots[k]
            cv == snapshot.cv_score
            iv == snapshot.interview_score
            pr == snapshot.practice_score
            breakdown == snapshot.breakdown_json.obj
        IN  /\ snapshot.readiness_score[1] * cv[2] * iv[2] * pr[2] * 10
                   = snapshot.readiness_score[2]
                         * (4 * cv[1] * iv[2] * pr[2]
                                + 5 * iv[1] * cv[2] * pr[2]
                                + 1 * pr[1] * cv[2] * iv[2])
            /\ snapshot.breakdown_json.parses
            /\ DOMAIN breakdown =
                   {"cv_score", "interview_score", "practice_score", "weights"}
            /\ breakdown.cv_score = cv
            /\ breakdown.interview_score = iv
            /\ breakdown.practice_score = pr
            /\ DOMAIN breakdown.weights = {"cv", "interview", "practice"}
            /\ breakdown.weights.cv = 4
            /\ breakdown.weights.interview = 5
            /\ breakdown.weights.practice = 1

(* the example of the claim: sub-scores 80, 60 and 20 give 64 *)
C20_Witness ==
    /\ Len(snapshots) >= 1
    /\ SameScore(snapshots[1].cv_score, Whole(80))
    /\ SameScore(snapshots[1].interview_score, Whole(60))
    /\ SameScore(snapshots[1].practice_score, Whole(20))
    /\ SameScore(snapshots[1].readiness_score, Whole(64))

(* the rows of the user that a snapshot's job_spec_id selects *)
RowsOf(rows, job_spec_id) ==
    SelectSeq(rows, LAMBDA row :
        job_spec_id = None \/ row.job_spec_id = job_spec_id[1])

Clamp(low, x, high) == IF x < low THEN low ELSE IF x > high THEN high ELSE x

(* C21: cv_score is 0 without a job spec or without an analysis for the    *)
(* job; otherwise it is the latest analysis's match_score * 100 plus a     *)
(* bonus 2 * strengths - 1 * gaps clamped to [0, 10], the sum clamped to   *)
(* [0, 100], so the bonus added is never negative and never above 10.      *)
C21_CoverageBonusClamped ==
    \A k \in 1..Len(snapshots) :
        LET job_spec_id == snapshots[k].job_spec_id
            analyses == RowsOf(store[1].analyses, job_spec_id)
        IN  IF job_spec_id = None \/ analyses = <<>>
            THEN SameScore(snapshots[k].cv_score, Whole(0))
            ELSE LET latest == analyses[Len(analyses)]
                     bonus == Clamp(0, 2 * latest.strengths - latest.gaps, 10)
                 IN  SameScore(snapshots[k].cv_score,
                               Whole(Clamp(0, latest.match_score + bonus, 100)))

ClaimedWeight(turn) == IF turn.code THEN 6 ELSE 4

ClaimedOverall(turn) == IF turn.overall = None THEN 5 ELSE turn.overall[1]

RECURSIVE WeightedTotal(_)
WeightedTotal(turns) ==
    IF turns = <<>>
    THEN 0
    ELSE ClaimedOverall(turns[Len(turns)]) * ClaimedWeight(turns[Len(turns)])
             + WeightedTotal(SubSeq(turns, 1, Len(turns) - 1))

RECURSIVE WeightTotal(_)
WeightTotal(turns) ==
    IF turns = <<>>
    THEN 0
    ELSE ClaimedWeight(turns[Len(turns)])
             + WeightTotal(SubSeq(turns, 1, Len(turns) - 1))

(* C22: interview_score is 100 times the weighted mean of the overall      *)
(* scores of the turns of the most recent session (of the job when one is  *)
(* given), weight 0.6 for code turns and 0.4 for the others, a turn        *)
(* without an overall counting 0.5; it is 0 without a session or when the  *)
(* most recent session has no turns, whatever older sessions hold.         *)
C22_InterviewScoreOfLatestSession ==
    \A k \in 1..Len(snapshots) :
        LET sessions == RowsOf(store[1].sessions, snapshots[k].job_spec_id)
            score == snapshots[k].interview_score
        IN  IF sessions = <<>>
            THEN SameScore(score, Whole(0))
            ELSE LET turns == sessions[Len(sessions)].turns
                 IN  IF turns = <<>>
                     THEN SameScore(score, Whole(0))
                     ELSE score[1] * WeightTotal(turns)
                              = score[2] * 10 * WeightedTotal(turns)

(* the latest session has no turns, an older one has, and the score is 0 *)
C22_Witness ==
    /\ Len(snapshots) >= 1
    /\ \E sessions \in {RowsOf(store[1].sessions, snapshots[1].job_spec_id)} :
           /\ Len(sessions) >= 2
           /\ sessions[Len(sessions)].turns = <<>>
           /\ Len(sessions[1].turns) = 2
           /\ SameScore(snapshots[1].interview_score, Whole(0))

SessionsAt(k) == RowsOf(store[1].sessions, snapshots[k].job_spec_id)

RecentAt(k) ==
    Len(SelectSeq(SessionsAt(k), LAMBDA row :
            row.created_at >= snapshots[k].timestamp - Week))

(* C23: practice_score is min(50, 5 * sessions) + min(30, 10 * sessions    *)
(* of the last 7 days) + (5 when there are at least 2 sessions), it is 0   *)
(* without sessions, and it lies in [0, 100], never above 85.              *)
C23_PracticeScoreFormula ==
    \A k \in 1..Len(snapshots) :
        LET sessions_count == Len(SessionsAt(k))
            score == snapshots[k].practice_score
            claimed ==
                Clamp(0, 5 * sessions_count, 50) + Clamp(0, 10 * RecentAt(k), 30)
                    + (IF sessions_count >= 2 THEN 5 ELSE 0)
        IN  /\ SameScore(score, Whole(claimed))
            /\ sessions_count = 0 => SameScore(score, Whole(0))
            /\ score[1] >= 0
            /\ score[1] <= 85 * score[2]

(* ten or more sessions, three of them recent: the largest value, 85 *)
C23_Witness ==
    /\ Len(snapshots) >= 1
    /\ Len(SessionsAt(1)) >= 10
    /\ RecentAt(1) >= 3
    /\ SameScore(snapshots[1].practice_score, Whole(85))

(* C24: two calls for the same user and job spec with no change to the     *)
(* stored analyses, sessions and turns in between append two distinct      *)
(* snapshots with identical readiness, cv, interview and practice scores.  *)
C24_RepeatedSnapshotsAgree ==
    \A j, k \in 1..Len(snapshots) :
        j < k =>
            /\ snapshots[j].id # snapshots[k].id
            /\ SameScore(snapshots[j].readiness_score,
                         snapshots[k].readiness_score)
            /\ SameScore(snapshots[j].cv_score, snapshots[k].cv_score)
            /\ SameScore(snapshots[j].interview_score,
                         snapshots[k].interview_score)
            /\ SameScore(snapshots[j].practice_score,
                         snapshots[k].practice_score)

----------------------------------------------------------------------------
(* Properties of the turn state machine, continued *)

(* ended_at is set while the stored state is not complete: only the end    *)
(* branch of _process_decision does that, so an end decision was taken in  *)
(* this or in an earlier invocation                                        *)
EndedByDecision ==
    /\ ended_at # None
    /\ ~IsComplete(Persisted["followup_count"], Persisted["question_index"],
                   Len(plan_items))

(* C25: after a turn whose decision is end the session stays terminated:   *)
(* every later process_turn invocation returns is_done = true and appends  *)
(* no further Turn.                                                        *)
C25_EndIsFinal ==
    [][EndedByDecision =>
           /\ response'.is_done = TRUE
           /\ interview_turns' = interview_turns]_vars

----------------------------------------------------------------------------
(* Properties of the question selector, continued *)

(* the candidates of the call: the rows of the requested type (and         *)
(* difficulty, when one is asked for)                                      *)
CallCandidates ==
    Candidates(question_rows, selection.question_type,
               selection.difficulty_filter)

(* C26: when the table holds a question of the requested type,             *)
(* select_questions does not raise, and it returns at least one question   *)
(* and either num_questions of them or all that its sampling pool still    *)
(* offers, also when candidates have match score 0.                        *)
C26_SelectionCompletes ==
    (selection # None /\ CallCandidates # <<>>) =>
        /\ selection.pc # "raised"
        /\ selection.pc = "returned" =>
               /\ Len(selection.result[1]) >= 1
               /\ \/ Len(selection.result[1]) = selection.num_questions
                  \/ Remaining(selection) = <<>>

(* the candidates the draw loop has discarded so far *)
Discarded(sel) == Range(sel.pool) \ Range(sel.top_candidates)

(* C27: every iteration of the draw loop either adds one question to the   *)
(* selection or removes the discarded candidate from the sampling pool for *)
(* good, so the loop runs at most (size of the top-3x pool) +              *)
(* num_questions times and never keeps a candidate it has discarded.       *)
C27_DrawLoopIsBounded ==
    [][(selection # None /\ selection.pc = "drawing"
            /\ selection'.pc = "drawing")
       => /\ \/ /\ Len(selection'.selected) = Len(selection.selected) + 1
                /\ selection'.top_candidates = selection.top_candidates
             \/ /\ selection'.selected = selection.selected
                /\ Len(selection'.top_candidates)
                       = Len(selection.top_candidates) - 1
                /\ Discarded(selection) \subseteq Discarded(selection')
                /\ Discarded(selection') # Discarded(selection)
          /\ Discarded(selection') \cap Range(Remaining(selection')) = {}
          /\ Discarded(selection') \cap Range(selection'.selected) = {}
          /\ selection'.iterations
                 <= Len(selection'.pool) + selection'.num_questions]_vars

(* the loop has discarded a draw and has ended *)
C27_Witness ==
    /\ Returned
    /\ Discarded(selection) # {}
    /\ selection.iterations > Len(selection.selected)
    /\ Len(selection.result[1]) = selection.num_questions

(* every planned question is in the question bank *)
BankIsComplete ==
    \A k \in 1..Len(plan_items) :
        plan_items[k]["selected_question_id"] \in question_bank

(* reasoning_loop.run has raised in every invocation that reached it: a    *)
(* turn recorded for a returned judgment carries that judgment's score,    *)
(* which is one of Scores, and a turn recorded after a failure carries     *)
(* the score of the fallback decision                                      *)
ReasoningAlwaysFailed ==
    /\ FallbackDecision.satisfaction_score \notin Scores
    /\ \A k \in 1..Len(interview_turns) :
           interview_turns[k].score.overall = FallbackDecision.satisfaction_score
    /\ run_result # None => run_result[1].raised

(* C28: when the reasoning capability fails on every turn and every        *)
(* planned question exists, each of the first n invocations on a plan of   *)
(* n items records one Turn and moves question_index by one, and           *)
(* invocation n + 1 returns is_done = true and sets ended_at; a failing    *)
(* refinement does not hold question_index back either.                    *)
C28_FailuresStillComplete ==
    (BankIsComplete /\ ReasoningAlwaysFailed) =>
        /\ ~raised
        /\ clock <= Len(plan_items) =>
               /\ Len(interview_turns) = clock
               /\ Persisted["question_index"] = clock
               /\ Persisted["followup_count"] = 0
               /\ ended_at = None
        /\ clock > Len(plan_items) =>
               /\ Len(interview_turns) = Len(plan_items)
               /\ Persisted["question_index"] = Len(plan_items)
               /\ response.is_done = TRUE
               /\ ended_at # None
               /\ clock = Len(plan_items) + 1 => ended_at = Some(clock)

(* a plan of two items was completed by three invocations whose reasoning  *)
(* failed                                                                  *)
C28_Witness ==
    /\ BankIsComplete
    /\ ReasoningAlwaysFailed
    /\ Len(plan_items) = 2
    /\ clock = 3
    /\ Len(interview_turns) = 2
    /\ ended_at = Some(3)
    /\ response.is_done = TRUE

----------------------------------------------------------------------------
(* Properties of the plan builder, continued *)

(* C29: a plan returned by build_interview_plan holds no question id in    *)
(* two plan items: the open batch has no repeats and the primary question  *)
(* of every code slot differs from that of every other code slot.          *)
C29_PlanHasNoRepeats ==
    (building # None /\ building.pc = "returned") =>
        \A i, j \in 1..Len(building.plan_items) :
            i < j => building.plan_items[i].question_id
                         # building.plan_items[j].question_id

----------------------------------------------------------------------------
(* Properties of the turn state machine: the default branch *)

(* the judgment is a follow-up without a text, or its action is none of    *)
(* followup, hint and end                                                  *)
DefaultsToAdvance ==
    /\ Judged
    /\ \/ Judgment.action = "followup" /\ Judgment.followup_question = ""
       \/ Judgment.action \notin {"followup", "hint", "end"}

(* C30: a follow-up judgment without a text and a judgment with an action  *)
(* other than followup, hint and end are handled as advance:               *)
(* question_index is incremented, followup_count is reset to 0 and         *)
(* previous_followups is cleared.  followup_count increases only by one    *)
(* and only together with the follow-up text being appended, and           *)
(* len(previous_followups) = followup_count after every turn.              *)
C30_UnknownDecisionsAdvance ==
    /\ DefaultsToAdvance =>
           /\ Persisted["question_index"] = Entry["question_index"] + 1
           /\ Persisted["followup_count"] = 0
           /\ Persisted["previous_followups"] = <<>>
    /\ (loaded # None /\ Persisted["followup_count"] > Entry["followup_count"]) =>
           /\ Judged
           /\ Judgment.action = "followup"
           /\ Judgment.followup_question # ""
           /\ Persisted["followup_count"] = Entry["followup_count"] + 1
           /\ Persisted["previous_followups"] =
                  Append(Entry["previous_followups"], Judgment.followup_question)
    /\ Len(Persisted["previous_followups"]) = Persisted["followup_count"]

(* after a follow-up was asked, a follow-up judgment without a text moved  *)
(* on to the next question                                                 *)
C30_Witness ==
    /\ Judged
    /\ Judgment.action = "followup"
    /\ Judgment.followup_question = ""
    /\ Entry["followup_count"] = 1
    /\ Len(Entry["previous_followups"]) = 1
    /\ Persisted["followup_count"] = 0
    /\ Persisted["previous_followups"] = <<>>
    /\ Persisted["question_index"] = Entry["question_index"] + 1

====
